---- MODULE Spec2Model ----
(***************************************************************************)
(* A model of the statistical comparison engine of compare-mt:             *)
(*   - the scorers' cache/replay pair (compare_mt/scorers.py),              *)
(*   - the paired bootstrap (compare_mt/sign_utils.py),                     *)
(*   - the bucketed word matcher (compare_mt/bucketers.py, bucketers.py),   *)
(*   - the salience extractor (compare_mt/stat_utils.py).                   *)
(*                                                                         *)
(* Conventions.  Python lists are sequences, so list index i of the code    *)
(* is index i+1 here; sentence ids are 1..n for the code's 0..n-1.          *)
(* Floats come in two forms.  Where the code compares two results of the   *)
(* same sequence of float operations (the scorers, the bucket statistics)   *)
(* a float is kept exactly, as a pair <<numerator, denominator>> with a     *)
(* positive denominator; <<0, 0>> is NaN and <<1, 0>> is inf.  Where the    *)
(* rounding of the operations decides the result (the win ratios of the     *)
(* bootstrap, the salience scores) a float is an IEEE-754 binary64 value    *)
(* [m, e] of value m * 2^e, 2^52 <= m < 2^53, every operation rounded to    *)
(* nearest, ties to even, as the hardware does.  Words are the integers     *)
(* 1..VocabSize.  The scorers are modelled in their default configuration   *)
(* (case_insensitive = False).                                              *)
(***************************************************************************)
EXTENDS Integers, Sequences, FiniteSets, TLC

\* ------------------------------------------------------------------------
\* Bounds of the model
\* ------------------------------------------------------------------------
VocabSize == 2
MaxSentLen == 2
MaxCorpus == 2
MaxSamples == 6
MaxCount == 2

\* ------------------------------------------------------------------------
\* Program constants
\* ------------------------------------------------------------------------
global_scorer_scale == 100
NumWeights == 4
sub_pen == 1
ins_pen == 1
del_pen == 1

\* ------------------------------------------------------------------------
\* Generic helpers
\* ------------------------------------------------------------------------
Min(a, b) == IF a < b THEN a ELSE b
Max(a, b) == IF a < b THEN b ELSE a

SeqsUpTo(S, n) == UNION {[1..k -> S] : k \in 0..n}

Range(s) == {s[i] : i \in DOMAIN s}

RECURSIVE SumSeq(_)
SumSeq(s) == IF s = <<>> THEN 0 ELSE s[1] + SumSeq(Tail(s))

RECURSIVE GCD(_, _)
GCD(a, b) == IF b = 0 THEN a ELSE GCD(b, a % b)

\* Python floats, kept exactly; all of them are non-negative ----------------
NaN == <<0, 0>>
Inf == <<1, 0>>
IsNaN(x) == x = NaN
IsFin(x) == x[2] # 0
Reduce(n, d) == LET g == GCD(n, d) IN <<n \div g, d \div g>>
Flt(n) == <<n, 1>>
FEq(a, b) == /\ ~IsNaN(a) /\ ~IsNaN(b)
             /\ IF IsFin(a) /\ IsFin(b) THEN a[1] * b[2] = b[1] * a[2] ELSE a = b
FLt(a, b) == /\ ~IsNaN(a) /\ ~IsNaN(b)
             /\ IF IsFin(a) /\ IsFin(b) THEN a[1] * b[2] < b[1] * a[2]
                ELSE IsFin(a) /\ ~IsFin(b)
FGt(a, b) == FLt(b, a)
FAdd(a, b) == IF IsNaN(a) \/ IsNaN(b) THEN NaN
              ELSE IF IsFin(a) /\ IsFin(b) THEN Reduce(a[1] * b[2] + b[1] * a[2], a[2] * b[2])
              ELSE Inf
FMul(a, b) == IF IsNaN(a) \/ IsNaN(b) THEN NaN
              ELSE IF IsFin(a) /\ IsFin(b) THEN Reduce(a[1] * b[1], a[2] * b[2])
              ELSE IF a[1] = 0 \/ b[1] = 0 THEN NaN ELSE Inf
\* numpy division: x / 0 is inf, 0 / 0 and inf / inf are nan (with a warning)
FDiv(a, b) == IF IsNaN(a) \/ IsNaN(b) THEN NaN
              ELSE IF IsFin(a) /\ IsFin(b)
                   THEN (IF b[1] = 0 THEN (IF a[1] = 0 THEN NaN ELSE Inf)
                         ELSE Reduce(a[1] * b[2], a[2] * b[1]))
              ELSE IF IsFin(b) THEN Inf
              ELSE IF IsFin(a) THEN Flt(0)
              ELSE NaN

RECURSIVE FSum(_)
FSum(s) == IF s = <<>> THEN Flt(0) ELSE FAdd(s[1], FSum(Tail(s)))

\* numpy.mean: the sum over the count, NaN (0/0) on an empty array
np_mean(s) == FDiv(FSum(s), Flt(Len(s)))

\* [xs[i] for i in ids]
Select(xs, ids) == [k \in 1..Len(ids) |-> xs[ids[k]]]

\* ------------------------------------------------------------------------
\* ngram_utils.sent_ngrams_list
\* ------------------------------------------------------------------------
sent_ngrams_list(words, n) ==
  [i \in 1..Max(0, Len(words) - n + 1) |-> SubSeq(words, i, i + n - 1)]

\* collections.Counter(xs)[x]
Counter(xs, x) == Cardinality({i \in DOMAIN xs : xs[i] = x})

RECURSIVE SumOver(_, _)
SumOver(S, f) == IF S = {} THEN 0
                 ELSE LET x == CHOOSE y \in S : TRUE IN f[x] + SumOver(S \ {x}, f)

\* ------------------------------------------------------------------------
\* BleuScorer
\* ------------------------------------------------------------------------
\* BleuScorer._precision counting every output n-gram found in the reference,
\* without the min with the reference count
Bleu_precision_unclipped(ref, out, n) ==
  LET out_ngram == sent_ngrams_list(out, n)
      ref_ngram == sent_ngrams_list(ref, n)
      keys == Range(out_ngram)
      num == SumOver(keys, [g \in keys |-> IF Counter(ref_ngram, g) > 0
                                           THEN Counter(out_ngram, g) ELSE 0])
      denom == SumOver(keys, [g \in keys |-> Counter(out_ngram, g)])
  IN <<num, Max(1, denom)>>

\* BleuScorer._precision: <<num, denom>>
Bleu_precision(ref, out, n) ==
  LET out_ngram == sent_ngrams_list(out, n)
      ref_ngram == sent_ngrams_list(ref, n)
      keys == Range(out_ngram)
      num == SumOver(keys, [g \in keys |-> Min(Counter(out_ngram, g), Counter(ref_ngram, g))])
      denom == SumOver(keys, [g \in keys |-> Counter(out_ngram, g)])
  IN <<num, Max(1, denom)>>

\* BleuScorer.cache_stats: zip(ref, out) stops at the shorter corpus
Bleu_cache_stats(ref, out) ==
  [i \in 1..Min(Len(ref), Len(out)) |->
     [ref_len |-> Len(ref[i]), out_len |-> Len(out[i]),
      prec |-> [n \in 1..NumWeights |-> Bleu_precision(ref[i], out[i], n)]]]

\* The value scale * bp * exp(sum_i w_i * log p_i) is kept in the exact form
\* [zero, bp, p]: zero when the code returns 0; bp is <<1, 1>> when
\* ref_len <= out_len (min(1, exp(1 - ref_len/out_len)) = 1) and the reduced
\* ratio ref_len/out_len otherwise; p[i] is the reduced ratio the logarithm is
\* taken of, <<1, 1>> when the code adds 0 for order i.
BleuZero == [zero |-> TRUE, bp |-> <<1, 1>>, p |-> <<>>]

Bleu_score_cached_corpus(sent_ids, cached_stats) ==
  IF Len(cached_stats) = 0 THEN BleuZero
  ELSE
    LET ref_len == SumSeq([k \in 1..Len(sent_ids) |-> cached_stats[sent_ids[k]].ref_len])
        out_len == SumSeq([k \in 1..Len(sent_ids) |-> cached_stats[sent_ids[k]].out_len])
        num_prec == [n \in 1..NumWeights |->
                       SumSeq([k \in 1..Len(sent_ids) |-> cached_stats[sent_ids[k]].prec[n][1]])]
        denom_prec == [n \in 1..NumWeights |->
                       SumSeq([k \in 1..Len(sent_ids) |-> cached_stats[sent_ids[k]].prec[n][2]])]
    IN IF num_prec[1] = 0 THEN BleuZero
       ELSE [zero |-> out_len = 0,
             bp |-> IF out_len = 0 \/ ref_len <= out_len THEN <<1, 1>>
                    ELSE Reduce(ref_len, out_len),
             p |-> [n \in 1..NumWeights |->
                      IF denom_prec[n] # 0 /\ num_prec[n] > 0
                      THEN Reduce(num_prec[n], denom_prec[n]) ELSE <<1, 1>>]]

\* BleuScorer.score_corpus
Bleu_score_corpus(ref, out) ==
  Bleu_score_cached_corpus([i \in 1..Len(ref) |-> i], Bleu_cache_stats(ref, out))

\* ------------------------------------------------------------------------
\* WERScorer
\* ------------------------------------------------------------------------
\* scores[i, j] with the insertion step left out
RECURSIVE ed_scores_no_ins(_, _, _, _)
ed_scores_no_ins(ref, out, i, j) ==
  IF j = 0 THEN i
  ELSE IF i = 0 THEN j
  ELSE LET my_action == IF ref[i] = out[j] THEN 0 ELSE 1
           my_score == ed_scores_no_ins(ref, out, i - 1, j - 1) + my_action * sub_pen
           del_score == ed_scores_no_ins(ref, out, i - 1, j) + del_pen
       IN IF del_score < my_score THEN del_score ELSE my_score

\* scores[i, j] with every diagonal step charged as a substitution
RECURSIVE ed_scores_all_sub(_, _, _, _)
ed_scores_all_sub(ref, out, i, j) ==
  IF j = 0 THEN i
  ELSE IF i = 0 THEN j
  ELSE LET my_score == ed_scores_all_sub(ref, out, i - 1, j - 1) + sub_pen
           del_score == ed_scores_all_sub(ref, out, i - 1, j) + del_pen
           my_score2 == IF del_score < my_score THEN del_score ELSE my_score
           ins_score == ed_scores_all_sub(ref, out, i, j - 1) + ins_pen
       IN IF ins_score < my_score2 THEN ins_score ELSE my_score2

\* scores[i, j] with a deletion charged twice the other edits
RECURSIVE ed_scores_del2(_, _, _, _)
ed_scores_del2(ref, out, i, j) ==
  IF j = 0 THEN i
  ELSE IF i = 0 THEN j
  ELSE LET my_action == IF ref[i] = out[j] THEN 0 ELSE 1
           my_score == ed_scores_del2(ref, out, i - 1, j - 1) + my_action * sub_pen
           del_score == ed_scores_del2(ref, out, i - 1, j) + 2 * del_pen
           my_score2 == IF del_score < my_score THEN del_score ELSE my_score
           ins_score == ed_scores_del2(ref, out, i, j - 1) + ins_pen
       IN IF ins_score < my_score2 THEN ins_score ELSE my_score2

\* scores[i, j] with the test of equals[i, j] inverted
RECURSIVE ed_scores_inverted(_, _, _, _)
ed_scores_inverted(ref, out, i, j) ==
  IF j = 0 THEN i
  ELSE IF i = 0 THEN j
  ELSE LET my_action == IF ref[i] = out[j] THEN 1 ELSE 0
           my_score == ed_scores_inverted(ref, out, i - 1, j - 1) + my_action * sub_pen
           del_score == ed_scores_inverted(ref, out, i - 1, j) + del_pen
           my_score2 == IF del_score < my_score THEN del_score ELSE my_score
           ins_score == ed_scores_inverted(ref, out, i, j - 1) + ins_pen
       IN IF ins_score < my_score2 THEN ins_score ELSE my_score2

\* scores[i, j] of WERScorer._edit_distance (row i of ref, column j of out)
RECURSIVE ed_scores(_, _, _, _)
ed_scores(ref, out, i, j) ==
  IF j = 0 THEN i
  ELSE IF i = 0 THEN j
  ELSE LET my_action == IF ref[i] = out[j] THEN 0 ELSE 1
           my_score == ed_scores(ref, out, i - 1, j - 1) + my_action * sub_pen
           del_score == ed_scores(ref, out, i - 1, j) + del_pen
           my_score2 == IF del_score < my_score THEN del_score ELSE my_score
           ins_score == ed_scores(ref, out, i, j - 1) + ins_pen
       IN IF ins_score < my_score2 THEN ins_score ELSE my_score2

\* WERScorer._edit_distance: scores[-1, -1]
WER_edit_distance(ref, out) == ed_scores(ref, out, Len(ref), Len(out))

\* WERScorer.cache_stats
WER_cache_stats(ref, out) ==
  [i \in 1..Min(Len(ref), Len(out)) |->
     [ref_len |-> Len(ref[i]), ed |-> WER_edit_distance(ref[i], out[i])]]

\* WERScorer.score_cached_corpus
WER_score_cached_corpus(sent_ids, cached_stats) ==
  IF Len(cached_stats) = 0 THEN Flt(0)
  ELSE
    LET denom == SumSeq([k \in 1..Len(sent_ids) |-> cached_stats[sent_ids[k]].ref_len])
        total == SumSeq([k \in 1..Len(sent_ids) |-> cached_stats[sent_ids[k]].ed])
        wer == IF denom # 0 THEN Reduce(total, denom) ELSE Flt(0)
    IN FMul(Flt(global_scorer_scale), wer)

\* WERScorer.score_corpus
WER_score_corpus(ref, out) ==
  WER_score_cached_corpus([i \in 1..Len(ref) |-> i], WER_cache_stats(ref, out))

\* ------------------------------------------------------------------------
\* SentenceFactoredScorer (SentBleuScorer, RougeScorer, RibesScorer)
\* ------------------------------------------------------------------------
\* The aggregate code sees a sentence only through score_sentence(r, o, s)[0].
\* An output sentence is carried as [words, metric], metric being the value the
\* subclass' score_sentence returns for it against its reference sentence.
score_sentence(r, o) == Flt(o.metric)

\* SentenceFactoredScorer.score_corpus
Sent_score_corpus(ref, out) ==
  IF Len(ref) = 0 THEN Flt(0)
  ELSE LET score_sum == FSum([i \in 1..Min(Len(ref), Len(out)) |-> score_sentence(ref[i], out[i])])
       IN FDiv(score_sum, Flt(Len(ref)))

\* SentenceFactoredScorer.cache_stats
Sent_cache_stats(ref, out) ==
  [i \in 1..Min(Len(ref), Len(out)) |-> score_sentence(ref[i], out[i])]

\* SentenceFactoredScorer.score_cached_corpus
Sent_score_cached_corpus(sent_ids, cached_stats) ==
  np_mean(Select(cached_stats, sent_ids))

\* ------------------------------------------------------------------------
\* Results of a call: what it returned, or the exception it raised
\* ------------------------------------------------------------------------
Returned(v) == [raised |-> "none", value |-> v]
Raised(e) == [raised |-> e, value |-> <<>>]

\* ------------------------------------------------------------------------
\* align_utils.ngram_context_align and RibesScorer
\* ------------------------------------------------------------------------
\* gram_pos[Len(g)][g] of _count_ngram(sent, order): the start positions of the
\* n-gram g in sent, as list indices, ascending
gram_pos(sent, g) ==
  LET S == {p \in 1..(Len(sent) - Len(g) + 1) : SubSeq(sent, p, p + Len(g) - 1) = g}
  IN [k \in 1..Cardinality(S) |->
        (CHOOSE p \in S : Cardinality({q \in S : q < p}) = k - 1) - 1]

\* len(ref_gram_pos[n][g]) == len(out_gram_pos[n][g]) == 1
unique_in_both(ref, out, g) == Len(gram_pos(ref, g)) = 1 /\ Len(gram_pos(out, g)) = 1

\* the loop over j of ngram_context_align for the output word at list index i:
\* what it appends to worder
RECURSIVE context_search(_, _, _, _, _)
context_search(ref, out, order, i, j) ==
  IF j >= order THEN <<>>
  ELSE LET word_backward == SubSeq(out, i + 1 - j, i + 1)
           word_forward == SubSeq(out, i + 1, i + 1 + j)
       IN IF i - j >= 0 /\ unique_in_both(ref, out, word_backward)
          THEN <<gram_pos(ref, word_backward)[1] + j>>
          ELSE IF i + j < Len(out) /\ unique_in_both(ref, out, word_forward)
          THEN <<gram_pos(ref, word_forward)[1]>>
          ELSE context_search(ref, out, order, i, j + 1)

\* one round of the loop over the output words, for list index i
align_word(ref, out, order, i) ==
  LET word == <<out[i + 1]>>
  IN IF Len(gram_pos(ref, word)) = 0 THEN <<>>
     ELSE IF unique_in_both(ref, out, word) THEN <<gram_pos(ref, word)[1]>>
     ELSE context_search(ref, out, order, i, 1)

RECURSIVE worder_upto(_, _, _, _)
worder_upto(ref, out, order, n) ==
  IF n = 0 THEN <<>>
  ELSE worder_upto(ref, out, order, n - 1) \o align_word(ref, out, order, n - 1)

\* ngram_context_align(ref, out, order=-1): with an empty reference order is 0
\* and _count_ngram returns a dictionary without the key 1, which the first
\* round of the loop looks up
ngram_context_align(ref, out) ==
  LET order == Len(ref)
  IN IF order = 0 /\ Len(out) > 0 THEN Raised("KeyError")
     ELSE Returned(worder_upto(ref, out, order, Len(out)))

\* RibesScorer._kendall_tau_distance
kendall_tau_distance(alignment) ==
  LET n == Len(alignment)
      dis == Cardinality({p \in (1..n) \X (1..n) : p[1] < p[2] /\ alignment[p[2]] > alignment[p[1]]})
  IN IF n <= 1 THEN Flt(0) ELSE Reduce(2 * dis, n * n - n)

\* RibesScorer.score_sentence.  The value
\* scale * kt_dis * prec**alpha * bp**beta is kept as its factors: bp is
\* <<0, 1>> for an empty output, <<1, 1>> when len(ref) <= len(out)
\* (min(1, exp(1 - len(ref)/len(out))) = 1) and otherwise the reduced ratio
\* len(ref)/len(out) the exponential is taken of; zero says that a factor is 0.
Ribes_score_sentence(ref, out) ==
  LET a == ngram_context_align(ref, out)
  IN IF a.raised # "none" THEN a
     ELSE LET kt_dis == kendall_tau_distance(a.value)
              prec == IF Len(out) # 0 THEN Reduce(Len(a.value), Len(out)) ELSE Flt(0)
              bp == IF Len(out) = 0 THEN Flt(0)
                    ELSE IF Len(ref) <= Len(out) THEN Flt(1)
                    ELSE Reduce(Len(ref), Len(out))
          IN Returned([zero |-> kt_dis[1] = 0 \/ prec[1] = 0 \/ bp[1] = 0,
                       kt_dis |-> kt_dis, prec |-> prec, bp |-> bp])

\* ------------------------------------------------------------------------
\* score_sentence of the other scorers
\* ------------------------------------------------------------------------
\* a score_sentence that returns 0 instead of raising
Bleu_score_sentence_zero(ref, out) == Returned(Flt(0))

\* BleuScorer.score_sentence
Bleu_score_sentence(ref, out) == Raised("NotImplementedError")

\* SacreBleuScorer.score_sentence
SacreBleu_score_sentence(ref, out) == Raised("NotImplementedError")

\* LengthScorer.score_sentence
Length_score_sentence(ref, out) ==
  IF Len(ref) = 0 THEN Returned(Flt(0)) ELSE Returned(Reduce(Len(out), Len(ref)))

\* ExactMatchScorer.score_sentence
Exact_score_sentence(ref, out) == Returned(IF ref = out THEN Flt(1) ELSE Flt(0))

\* WERScorer.score_sentence: score_corpus([ref], [out])
WER_score_sentence(ref, out) == Returned(WER_score_corpus(<<ref>>, <<out>>))

\* scorer.score_sentence(ref, out)
call_score_sentence(sc, ref, out) ==
  CASE sc = "bleu" -> Bleu_score_sentence(ref, out)
    [] sc = "sacrebleu" -> SacreBleu_score_sentence(ref, out)
    [] sc = "ribes" -> Ribes_score_sentence(ref, out)
    [] sc = "length" -> Length_score_sentence(ref, out)
    [] sc = "exact" -> Exact_score_sentence(ref, out)
    [] sc = "wer" -> WER_score_sentence(ref, out)

\* SentenceFactoredScorer.cache_stats of RibesScorer: the scores of the
\* sentence pairs, or the exception of the first pair that raises
RECURSIVE Ribes_cache_stats(_, _)
Ribes_cache_stats(ref, out) ==
  IF Len(ref) = 0 \/ Len(out) = 0 THEN Returned(<<>>)
  ELSE LET first == Ribes_score_sentence(ref[1], out[1])
           rest == Ribes_cache_stats(Tail(ref), Tail(out))
       IN IF first.raised # "none" THEN first
          ELSE IF rest.raised # "none" THEN rest
          ELSE Returned(<<first.value>> \o rest.value)

\* scorer.cache_stats(ref, out)
call_cache_stats(sc, ref, out) ==
  CASE sc = "bleu" -> Returned(Bleu_cache_stats(ref, out))
    [] sc = "wer" -> Returned(WER_cache_stats(ref, out))
    [] sc = "ribes" -> Ribes_cache_stats(ref, out)

\* ------------------------------------------------------------------------
\* GleuScorer
\* ------------------------------------------------------------------------
\* GleuScorer._precision: <<num, denom>>
Gleu_precision(ref, out, src, n) ==
  LET ref_ngram == sent_ngrams_list(ref, n)
      out_ngram == sent_ngrams_list(out, n)
      src_ngram == sent_ngrams_list(src, n)
      keys == Range(out_ngram)
      out_join_ref == [g \in keys |-> Min(Counter(out_ngram, g), Counter(ref_ngram, g))]
      out_join_src == [g \in keys |-> Min(Counter(out_ngram, g), Counter(src_ngram, g))]
      num == SumOver(keys, out_join_ref)
               - SumOver(keys, [g \in keys |-> Max(0, out_join_src[g] - out_join_ref[g])])
  IN <<Max(num, 0), Len(out_ngram)>>

\* GleuScorer.cache_stats: zip(ref, out, src) stops at the shortest corpus
Gleu_cache_stats(ref, out, src) ==
  [i \in 1..Min(Len(ref), Min(Len(out), Len(src))) |->
     [ref_len |-> Len(ref[i]), out_len |-> Len(out[i]),
      prec |-> [n \in 1..NumWeights |-> Gleu_precision(ref[i], out[i], src[i], n)]]]

\* GleuScorer.score_cached_corpus, the value in the form of BleuScorer's.
\* With no sentence id selected num_prec and denom_prec stay empty Counters,
\* the test for a zero finds none and log(num_prec[1] / denom_prec[1]) divides
\* 0 by 0.
Gleu_score_cached_corpus(sent_ids, cached_stats) ==
  IF Len(cached_stats) = 0 THEN Returned(BleuZero)
  ELSE IF \E k \in DOMAIN sent_ids : sent_ids[k] > Len(cached_stats) THEN Raised("IndexError")
  ELSE
    LET ref_len == SumSeq([k \in 1..Len(sent_ids) |-> cached_stats[sent_ids[k]].ref_len])
        out_len == SumSeq([k \in 1..Len(sent_ids) |-> cached_stats[sent_ids[k]].out_len])
        num_prec == [n \in 1..NumWeights |->
                       SumSeq([k \in 1..Len(sent_ids) |-> cached_stats[sent_ids[k]].prec[n][1]])]
        denom_prec == [n \in 1..NumWeights |->
                       SumSeq([k \in 1..Len(sent_ids) |-> cached_stats[sent_ids[k]].prec[n][2]])]
    IN IF Len(sent_ids) = 0 THEN Raised("ZeroDivisionError")
       ELSE IF \E n \in 1..NumWeights : num_prec[n] = 0 \/ denom_prec[n] = 0
       THEN Returned(BleuZero)
       ELSE Returned([zero |-> FALSE,
                      bp |-> IF ref_len <= out_len THEN <<1, 1>> ELSE Reduce(ref_len, out_len),
                      p |-> [n \in 1..NumWeights |-> Reduce(num_prec[n], denom_prec[n])]])

\* GleuScorer.score_corpus; src is <<>> for None and <<corpus>> otherwise, and
\* zip(ref, out, None) raises TypeError
Gleu_score_corpus(ref, out, src) ==
  IF src = <<>> THEN Raised("TypeError")
  ELSE Gleu_score_cached_corpus([i \in 1..Len(ref) |-> i], Gleu_cache_stats(ref, out, src[1]))

\* ------------------------------------------------------------------------
\* score_corpus on corpora of any two lengths
\* ------------------------------------------------------------------------
\* BleuScorer.score_corpus: score_cached_corpus(range(len(ref)), cached_stats)
\* indexes the cache with every sentence id of ref
Bleu_score_corpus_call(ref, out) ==
  LET cached_stats == Bleu_cache_stats(ref, out)
  IN IF Len(cached_stats) = 0 THEN Returned(BleuZero)
     ELSE IF Len(ref) > Len(cached_stats) THEN Raised("IndexError")
     ELSE Returned(Bleu_score_cached_corpus([i \in 1..Len(ref) |-> i], cached_stats))

\* WERScorer.score_corpus
WER_score_corpus_call(ref, out) ==
  LET cached_stats == WER_cache_stats(ref, out)
  IN IF Len(cached_stats) = 0 THEN Returned(Flt(0))
     ELSE IF Len(ref) > Len(cached_stats) THEN Raised("IndexError")
     ELSE Returned(WER_score_cached_corpus([i \in 1..Len(ref) |-> i], cached_stats))

\* LengthScorer.score_corpus (Scorer.scale is 1.0)
Length_score_corpus(ref, out) ==
  LET ref_words == SumSeq([i \in DOMAIN ref |-> Len(ref[i])])
      out_words == SumSeq([i \in DOMAIN out |-> Len(out[i])])
  IN IF ref_words = 0 THEN Returned(Flt(0)) ELSE Returned(Reduce(out_words, ref_words))

\* ExactMatchScorer.score_corpus: float(matches) / len(ref)
Exact_score_corpus(ref, out) ==
  LET matches == Cardinality({i \in 1..Min(Len(ref), Len(out)) : ref[i] = out[i]})
  IN IF Len(ref) = 0 THEN Raised("ZeroDivisionError") ELSE Returned(Reduce(matches, Len(ref)))

\* SentBleuScorer.score_sentence: scale times the value of nltk's
\* sentence_bleu([ref], out, smoothing_function=method2), kept unevaluated
SentBleu_score_sentence(ref, out) ==
  Returned([scale |-> global_scorer_scale, sentence_bleu |-> <<ref, out>>])

\* the loop of SentenceFactoredScorer.score_corpus over zip(ref, out, src): the
\* scores added to score_sum, or the exception of the first pair that raises
RECURSIVE sentence_scores(_, _, _)
sentence_scores(sc, ref, out) ==
  IF Len(ref) = 0 \/ Len(out) = 0 THEN Returned(<<>>)
  ELSE LET first == IF sc = "ribes" THEN Ribes_score_sentence(ref[1], out[1])
                    ELSE SentBleu_score_sentence(ref[1], out[1])
           rest == sentence_scores(sc, Tail(ref), Tail(out))
       IN IF first.raised # "none" THEN first
          ELSE IF rest.raised # "none" THEN rest
          ELSE Returned(<<first.value>> \o rest.value)

\* SentenceFactoredScorer.score_corpus of RibesScorer and SentBleuScorer; the
\* mean score_sum / len(ref) is kept as the scores summed and the divisor
SentFactored_score_corpus(sc, ref, out) ==
  IF Len(ref) = 0 THEN Returned(Flt(0))
  ELSE LET scores == sentence_scores(sc, ref, out)
       IN IF scores.raised # "none" THEN scores
          ELSE Returned([score_sum |-> scores.value, len_ref |-> Len(ref)])

\* scorer.score_corpus(ref, out, src=src)
call_score_corpus(sc, ref, out, src) ==
  CASE sc = "bleu" -> Bleu_score_corpus_call(ref, out)
    [] sc = "wer" -> WER_score_corpus_call(ref, out)
    [] sc = "length" -> Length_score_corpus(ref, out)
    [] sc = "exact" -> Exact_score_corpus(ref, out)
    [] sc \in {"ribes", "sentbleu"} -> SentFactored_score_corpus(sc, ref, out)
    [] sc = "gleu" -> Gleu_score_corpus(ref, out, src)

\* ------------------------------------------------------------------------
\* ngram_utils.compare_ngrams (no labels)
\* ------------------------------------------------------------------------
\* the n-grams of iterate_sent_ngrams(words, min_length, max_length), as a list
RECURSIVE iterate_sent_ngrams(_, _, _)
iterate_sent_ngrams(words, min_length, max_length) ==
  IF max_length < min_length THEN <<>>
  ELSE iterate_sent_ngrams(words, min_length, max_length - 1)
         \o sent_ngrams_list(words, max_length)

\* compare_ngrams whose matches do not consume the reference count (line 76
\* left out): every output n-gram found in the reference matches, and every
\* reference n-gram stays to be counted as under
compare_ngrams_no_consume(ref, out, min_length, max_length) ==
  IF Len(ref) # Len(out) THEN Raised("TypeError")
  ELSE
    LET ref_ngrams == [s \in DOMAIN ref |-> iterate_sent_ngrams(ref[s], min_length, max_length)]
        out_ngrams == [s \in DOMAIN out |-> iterate_sent_ngrams(out[s], min_length, max_length)]
        keys == UNION {Range(ref_ngrams[s]) \cup Range(out_ngrams[s]) : s \in DOMAIN ref}
        tot(g) == SumSeq([s \in DOMAIN out |-> Counter(out_ngrams[s], g)])
        mat(g) == SumSeq([s \in DOMAIN out |->
                            IF Counter(ref_ngrams[s], g) > 0 THEN Counter(out_ngrams[s], g) ELSE 0])
        ovr(g) == SumSeq([s \in DOMAIN out |->
                            IF Counter(ref_ngrams[s], g) > 0 THEN 0 ELSE Counter(out_ngrams[s], g)])
        und(g) == SumSeq([s \in DOMAIN out |-> Counter(ref_ngrams[s], g)])
    IN Returned([total |-> [g \in {k \in keys : tot(k) > 0} |-> tot(g)],
                 match |-> [g \in {k \in keys : mat(k) > 0} |-> mat(g)],
                 over |-> [g \in {k \in keys : ovr(k) > 0} |-> ovr(g)],
                 under |-> [g \in {k \in keys : und(k) > 0} |-> und(g)]])

\* compare_ngrams(ref, out, min_length, max_length): zip_longest pads the
\* shorter corpus with None, whose len() raises TypeError.  A dictionary is a
\* function on the keys it holds.
compare_ngrams(ref, out, min_length, max_length) ==
  IF Len(ref) # Len(out) THEN Raised("TypeError")
  ELSE
    LET ref_ngrams == [s \in DOMAIN ref |-> iterate_sent_ngrams(ref[s], min_length, max_length)]
        out_ngrams == [s \in DOMAIN out |-> iterate_sent_ngrams(out[s], min_length, max_length)]
        keys == UNION {Range(ref_ngrams[s]) \cup Range(out_ngrams[s]) : s \in DOMAIN ref}
        tot(g) == SumSeq([s \in DOMAIN out |-> Counter(out_ngrams[s], g)])
        mat(g) == SumSeq([s \in DOMAIN out |->
                            Min(Counter(out_ngrams[s], g), Counter(ref_ngrams[s], g))])
        ovr(g) == SumSeq([s \in DOMAIN out |->
                            Max(0, Counter(out_ngrams[s], g) - Counter(ref_ngrams[s], g))])
        und(g) == SumSeq([s \in DOMAIN out |->
                            Max(0, Counter(ref_ngrams[s], g) - Counter(out_ngrams[s], g))])
    IN Returned([total |-> [g \in {k \in keys : tot(k) > 0} |-> tot(g)],
                 match |-> [g \in {k \in keys : mat(k) > 0} |-> mat(g)],
                 over |-> [g \in {k \in keys : ovr(k) > 0} |-> ovr(g)],
                 under |-> [g \in {k \in keys : und(k) > 0} |-> und(g)]])

\* ------------------------------------------------------------------------
\* Dispatch on the scorer object
\* ------------------------------------------------------------------------
Words(corpus) == [i \in 1..Len(corpus) |-> corpus[i].words]

cache_stats(sc, ref, out) ==
  CASE sc = "bleu" -> Bleu_cache_stats(ref, Words(out))
    [] sc = "wer" -> WER_cache_stats(ref, Words(out))
    [] sc = "sent" -> Sent_cache_stats(ref, out)

score_cached_corpus(sc, sent_ids, cached_stats) ==
  CASE sc = "bleu" -> Bleu_score_cached_corpus(sent_ids, cached_stats)
    [] sc = "wer" -> WER_score_cached_corpus(sent_ids, cached_stats)
    [] sc = "sent" -> Sent_score_cached_corpus(sent_ids, cached_stats)

score_corpus(sc, ref, out) ==
  CASE sc = "bleu" -> Bleu_score_corpus(ref, Words(out))
    [] sc = "wer" -> WER_score_corpus(ref, Words(out))
    [] sc = "sent" -> Sent_score_corpus(ref, out)

\* equality of two scores of one scorer, as == compares the two floats
ScoreEq(sc, a, b) == IF sc = "bleu" THEN a = b ELSE FEq(a, b)

\* ------------------------------------------------------------------------
\* Bucketers (compare_mt/bucketers.py)
\* ------------------------------------------------------------------------
\* A bucketer object is [freq_counts, bucket_cutoffs] (FreqWordBucketer); bucket
\* ids are the code's, 0..num_buckets-1, and a per-bucket array is a function
\* on them.  A match position is a position of the sentence, or -1.

\* a cutoff_into_bucket that tests value <= v
cutoff_into_bucket_le(bucket_cutoffs, value) ==
  LET below == {i \in DOMAIN bucket_cutoffs : value <= bucket_cutoffs[i]}
  IN IF below = {} THEN Len(bucket_cutoffs)
     ELSE (CHOOSE i \in below : \A j \in below : i <= j) - 1

\* Bucketer.cutoff_into_bucket
cutoff_into_bucket(bucket_cutoffs, value) ==
  LET below == {i \in DOMAIN bucket_cutoffs : value < bucket_cutoffs[i]}
  IN IF below = {} THEN Len(bucket_cutoffs)
     ELSE (CHOOSE i \in below : \A j \in below : i <= j) - 1

\* len(self.bucket_strs), as Bucketer.set_bucket_cutoffs builds it
num_buckets(bk) == Len(bk.bucket_cutoffs) + 1

Buckets(bk) == 0..(num_buckets(bk) - 1)

\* self.freq_counts.get(word, 0)
freq_get(freq_counts, word) ==
  IF word \in DOMAIN freq_counts THEN freq_counts[word] ELSE 0

\* FreqWordBucketer.calc_bucket
calc_bucket(bk, word, label) ==
  cutoff_into_bucket(bk.bucket_cutoffs, freq_get(bk.freq_counts, word))

\* ref_pos[word]: the positions of word in ref_sent, ascending
ref_pos(ref_sent, word) ==
  LET S == {i \in DOMAIN ref_sent : ref_sent[i] = word}
  IN [k \in 1..Cardinality(S) |-> CHOOSE i \in S : Cardinality({j \in S : j < i}) = k - 1]

\* out_matches[oai] of _calc_trg_matches, out_word_cnts ignored: every output
\* word that occurs in the reference takes the first reference position
out_matches_first(ref_sent, out_sent) ==
  [oi \in DOMAIN out_sent |->
     LET ref_poss == ref_pos(ref_sent, out_sent[oi])
     IN IF Len(ref_poss) > 0 THEN ref_poss[1] ELSE -1]

\* out_matches[oai] of WordBucketer._calc_trg_matches: out_word_cnts[w] at
\* position oi is the number of earlier occurrences of w in out_sent
out_matches_of(ref_sent, out_sent) ==
  [oi \in DOMAIN out_sent |->
     LET ref_poss == ref_pos(ref_sent, out_sent[oi])
         out_word_cnt == Cardinality({k \in 1..(oi - 1) : out_sent[k] = out_sent[oi]})
     IN IF Len(ref_poss) > 0 /\ out_word_cnt < Len(ref_poss)
        THEN ref_poss[out_word_cnt + 1] ELSE -1]

\* WordBucketer._calc_trg_matches
calc_trg_matches(ref_sent, out_sents) ==
  LET out_matches == [oai \in DOMAIN out_sents |-> out_matches_of(ref_sent, out_sents[oai])]
  IN [out_matches |-> out_matches,
      ref_matches |->
        [oai \in DOMAIN out_sents |->
           [ri \in DOMAIN ref_sent |->
              LET S == {oi \in DOMAIN out_sents[oai] : out_matches[oai][oi] = ri}
              IN IF S = {} THEN -1 ELSE CHOOSE oi \in S : TRUE]]]

\* WordBucketer._calc_trg_buckets_and_matches (no labels)
calc_trg_buckets_and_matches(bk, ref_sent, out_sents) ==
  LET out_matches == calc_trg_matches(ref_sent, out_sents).out_matches
      ref_buckets == [ri \in DOMAIN ref_sent |-> calc_bucket(bk, ref_sent[ri], "None")]
      out_buckets ==
        [oai \in DOMAIN out_sents |->
           [oi \in DOMAIN out_sents[oai] |->
              IF out_matches[oai][oi] < 0 THEN calc_bucket(bk, out_sents[oai][oi], "None")
              ELSE ref_buckets[out_matches[oai][oi]]]]
  IN [my_ref_total |->
        [b \in Buckets(bk) |-> Cardinality({ri \in DOMAIN ref_sent : ref_buckets[ri] = b})],
      my_out_totals |->
        [oai \in DOMAIN out_sents |->
           [b \in Buckets(bk) |->
              Cardinality({oi \in DOMAIN out_sents[oai] : out_buckets[oai][oi] = b})]],
      my_out_matches |->
        [oai \in DOMAIN out_sents |->
           [b \in Buckets(bk) |->
              Cardinality({oi \in DOMAIN out_sents[oai] :
                             out_buckets[oai][oi] = b /\ out_matches[oai][oi] >= 0})]]]

\* LabelWordBucketer.calc_bucket: self.bucket_map[label], a defaultdict that
\* gives len(label_set) to a label outside label_set
Label_calc_bucket(bk, label) ==
  LET at == {i \in DOMAIN bk.label_set : bk.label_set[i] = label}
  IN IF at = {} THEN Len(bk.label_set) ELSE (CHOOSE i \in at : TRUE) - 1

\* WordBucketer._calc_trg_buckets_and_matches of a LabelWordBucketer, with
\* labels: "if not ref_label" (line 69) also takes the empty label list of an
\* empty reference sentence for no labels and drops out_labels, and calc_bucket
\* raises ValueError on the label None of each token then left without one
calc_trg_buckets_and_matches_labels(bk, ref_sent, ref_label, out_sents, out_labels) ==
  LET out_matches == calc_trg_matches(ref_sent, out_sents).out_matches
      all_buckets == 0..Len(bk.label_set)
  IN IF ref_label = <<>> /\ (ref_sent # <<>> \/ \E oai \in DOMAIN out_sents : out_sents[oai] # <<>>)
     THEN Raised("ValueError")
     ELSE
       LET ref_buckets == [ri \in DOMAIN ref_sent |-> Label_calc_bucket(bk, ref_label[ri])]
           out_buckets ==
             [oai \in DOMAIN out_sents |->
                [oi \in DOMAIN out_sents[oai] |->
                   IF out_matches[oai][oi] < 0 THEN Label_calc_bucket(bk, out_labels[oai][oi])
                   ELSE ref_buckets[out_matches[oai][oi]]]]
       IN Returned(
            [my_ref_total |->
               [b \in all_buckets |-> Cardinality({ri \in DOMAIN ref_sent : ref_buckets[ri] = b})],
             my_out_totals |->
               [oai \in DOMAIN out_sents |->
                  [b \in all_buckets |->
                     Cardinality({oi \in DOMAIN out_sents[oai] : out_buckets[oai][oi] = b})]],
             my_out_matches |->
               [oai \in DOMAIN out_sents |->
                  [b \in all_buckets |->
                     Cardinality({oi \in DOMAIN out_sents[oai] :
                                    out_buckets[oai][oi] = b /\ out_matches[oai][oi] >= 0})]],
             ref_buckets |-> ref_buckets,
             out_buckets |-> out_buckets,
             out_matches |-> out_matches])

\* WordBucketer._calc_src_buckets_and_matches (no labels); ref_aligns is a list
\* of <<source position, reference position>>
calc_src_buckets_and_matches(bk, src_sent, ref_sent, ref_aligns, out_sents) ==
  LET ref_matches == calc_trg_matches(ref_sent, out_sents).ref_matches
      src_buckets == [si \in DOMAIN src_sent |-> calc_bucket(bk, src_sent[si], "None")]
      src_aligns == [si \in DOMAIN src_sent |->
                       {ref_aligns[k][2] : k \in {j \in DOMAIN ref_aligns : ref_aligns[j][1] = si}}]
      my_ref_total ==
        [b \in Buckets(bk) |-> Cardinality({si \in DOMAIN src_sent : src_buckets[si] = b})]
  IN [my_ref_total |-> my_ref_total,
      my_out_totals |-> [oai \in DOMAIN out_sents |-> my_ref_total],
      my_out_matches |->
        [oai \in DOMAIN out_sents |->
           [b \in Buckets(bk) |->
              Cardinality({si \in DOMAIN src_sent :
                             /\ src_buckets[si] = b
                             /\ src_aligns[si] # {}
                             /\ \A x \in src_aligns[si] : ref_matches[oai][x] >= 0})]]]

\* stat_tuple with the two divisors exchanged
stat_tuple_swapped(mcnt, rcnt, ocnt) ==
  IF mcnt = 0 THEN <<mcnt, rcnt, ocnt, Flt(0), Flt(0), Flt(0)>>
  ELSE LET rec == FDiv(Flt(mcnt), Flt(ocnt))
           prec == FDiv(Flt(mcnt), Flt(rcnt))
           fmeas == FDiv(FMul(FMul(Flt(2), prec), rec), FAdd(prec, rec))
       IN <<mcnt, rcnt, ocnt, rec, prec, fmeas>>

\* the tuple (mcnt, rcnt, ocnt, rec, prec, fmeas) of calc_statistics (lines
\* 208-215) and calc_bucket_details (lines 237-244); the counts are numpy
\* integers, so a zero divisor gives inf or nan
stat_tuple(mcnt, rcnt, ocnt) ==
  IF mcnt = 0 THEN <<mcnt, rcnt, ocnt, Flt(0), Flt(0), Flt(0)>>
  ELSE LET rec == FDiv(Flt(mcnt), Flt(rcnt))
           prec == FDiv(Flt(mcnt), Flt(ocnt))
           fmeas == FDiv(FMul(FMul(Flt(2), prec), rec), FAdd(prec, rec))
       IN <<mcnt, rcnt, ocnt, rec, prec, fmeas>>

\* the per-sentence results of the loop of calc_statistics (lines 182-202);
\* src is <<>> for None, and "if src" is false for None and for an empty list
sentence_stats(bk, ref, outs, src, ref_aligns) ==
  [rsi \in 1..Len(ref) |->
     IF src # <<>>
     THEN calc_src_buckets_and_matches(bk, src[rsi], ref[rsi], ref_aligns[rsi],
                                       [oai \in DOMAIN outs |-> outs[oai][rsi]])
     ELSE calc_trg_buckets_and_matches(bk, ref[rsi], [oai \in DOMAIN outs |-> outs[oai][rsi]])]

\* the accumulation of lines 196-198 with = in place of +=
accumulate_last(xs) == IF xs = <<>> THEN 0 ELSE xs[Len(xs)]

\* the accumulation "total += my_total" of lines 196-198 over the sentences
accumulate(xs) == SumSeq(xs)

\* WordBucketer.calc_statistics
calc_statistics(bk, ref, outs, src, ref_aligns) ==
  LET per == sentence_stats(bk, ref, outs, src, ref_aligns)
      ref_total == [b \in Buckets(bk) |-> accumulate([i \in DOMAIN per |-> per[i].my_ref_total[b]])]
      out_totals == [oi \in DOMAIN outs |-> [b \in Buckets(bk) |->
                       accumulate([i \in DOMAIN per |-> per[i].my_out_totals[oi][b]])]]
      out_matches == [oi \in DOMAIN outs |-> [b \in Buckets(bk) |->
                       accumulate([i \in DOMAIN per |-> per[i].my_out_matches[oi][b]])]]
  IN [statistics |->
        [oi \in DOMAIN outs |->
           [b \in Buckets(bk) |-> stat_tuple(out_matches[oi][b], ref_total[b], out_totals[oi][b])]],
      my_ref_total_list |-> [i \in DOMAIN per |-> per[i].my_ref_total],
      my_out_totals_list |-> [i \in DOMAIN per |-> per[i].my_out_totals],
      my_out_matches_list |-> [i \in DOMAIN per |-> per[i].my_out_matches]]

\* one round of WordBucketer.calc_bucket_details (lines 233-244): the tuples
\* of the sample reduced_ids, per output and bucket
bucket_details_round(bk, lists, reduced_ids) ==
  [oi \in DOMAIN lists.my_out_totals_list[1] |->
     [b \in Buckets(bk) |->
        stat_tuple(
          SumSeq([k \in DOMAIN reduced_ids |-> lists.my_out_matches_list[reduced_ids[k]][oi][b]]),
          SumSeq([k \in DOMAIN reduced_ids |-> lists.my_ref_total_list[reduced_ids[k]][b]]),
          SumSeq([k \in DOMAIN reduced_ids |-> lists.my_out_totals_list[reduced_ids[k]][oi][b]]))]]

\* the tuple of WordBucketer.calc_source_bucketed_matches (lines 369-376)
src_stat_tuple(both_tot, ref_tot, out_tot) ==
  IF both_tot = 0 THEN <<both_tot, ref_tot, out_tot, Flt(0), Flt(0), Flt(0)>>
  ELSE LET rec == FDiv(Flt(both_tot), Flt(ref_tot))
           prec == FDiv(Flt(both_tot), Flt(out_tot))
           fmeas == FDiv(FMul(FMul(Flt(2), prec), rec), FAdd(prec, rec))
       IN <<both_tot, ref_tot, out_tot, rec, prec, fmeas>>

\* matches[bucket] = [both, ref, out] after the loop of
\* calc_source_bucketed_matches (lines 345-367).  Edge i of out_align finds
\* ref_cnt[word] > 0 iff fewer earlier edges of the sentence carry its word
\* than the reference has occurrences of it.
src_matches(bk, src, ref, out, ref_aligns, out_aligns) ==
  [b \in Buckets(bk) |->
     LET edge_bucket(s, e) == calc_bucket(bk, src[s][e[1]], "None")
         hit(s, i) ==
           LET word == out[s][out_aligns[s][i][2]]
           IN Cardinality({j \in 1..(i - 1) : out[s][out_aligns[s][j][2]] = word})
                < Counter(ref[s], word)
     IN <<SumSeq([s \in DOMAIN src |->
            Cardinality({i \in DOMAIN out_aligns[s] :
                           edge_bucket(s, out_aligns[s][i]) = b /\ hit(s, i)})]),
          SumSeq([s \in DOMAIN src |->
            Cardinality({i \in DOMAIN ref_aligns[s] : edge_bucket(s, ref_aligns[s][i]) = b})]),
          SumSeq([s \in DOMAIN src |->
            Cardinality({i \in DOMAIN out_aligns[s] : edge_bucket(s, out_aligns[s][i]) = b})])>>]

\* WordBucketer.calc_source_bucketed_matches: the tuples the generator yields,
\* and whether it then raises ZeroDivisionError (both_tot > 0, ref_tot = 0)
calc_source_bucketed_matches(bk, src, ref, out, ref_aligns, out_aligns) ==
  LET m == src_matches(bk, src, ref, out, ref_aligns, out_aligns)
      bad == {b \in Buckets(bk) : m[b][1] > 0 /\ m[b][2] = 0}
      stop == IF bad = {} THEN num_buckets(bk) ELSE CHOOSE b \in bad : \A c \in bad : b <= c
  IN [yielded |-> [k \in 1..stop |-> src_stat_tuple(m[k - 1][1], m[k - 1][2], m[k - 1][3])],
      raised |-> bad # {}]

\* ------------------------------------------------------------------------
\* compare_mt/cache_utils.py.  A dictionary is a function on its keys.
\* ------------------------------------------------------------------------
\* return_cache_dict(key_list, value_list): {k: v[0] for (k, v) in zip(...)},
\* a later pair of the zip replacing an earlier one of the same key
return_cache_dict(key_list, value_list) ==
  IF \E i \in DOMAIN value_list : Len(value_list[i]) # 1 THEN Raised("ValueError")
  ELSE LET n == Min(Len(key_list), Len(value_list))
           last(k) == CHOOSE i \in 1..n : key_list[i] = k /\ \A j \in 1..n : key_list[j] = k => j <= i
       IN Returned([k \in {key_list[i] : i \in 1..n} |-> value_list[last(k)][1]])

\* an extract_cache_dicts that returns, per system, the values of its keys
extract_cache_dicts_per_system(cache_dicts, key_list, num_out) ==
  IF cache_dicts = <<>> THEN Returned([i \in DOMAIN key_list |-> "None"])
  ELSE LET dicts == cache_dicts[1]
       IN IF Len(dicts) # num_out THEN Raised("ValueError")
          ELSE IF Len(key_list) = 1 THEN Returned([c \in DOMAIN dicts |-> dicts[c][key_list[1]]])
          ELSE IF \E c \in DOMAIN dicts : \E i \in DOMAIN key_list : key_list[i] \notin DOMAIN dicts[c]
          THEN Raised("KeyError")
          ELSE Returned([c \in DOMAIN dicts |-> [i \in DOMAIN key_list |-> dicts[c][key_list[i]]]])

\* extract_cache_dicts(cache_dicts, key_list, num_out); cache_dicts is <<>> for
\* None and <<list>> otherwise.  zip(*rows) of no row is empty, and of rows of
\* len(key_list) values it holds, per key, the values of the systems in order.
extract_cache_dicts(cache_dicts, key_list, num_out) ==
  IF cache_dicts = <<>> THEN Returned([i \in DOMAIN key_list |-> "None"])
  ELSE LET dicts == cache_dicts[1]
       IN IF Len(dicts) # num_out THEN Raised("ValueError")
          ELSE IF \E c \in DOMAIN dicts : \E i \in DOMAIN key_list : key_list[i] \notin DOMAIN dicts[c]
          THEN Raised("KeyError")
          ELSE IF Len(key_list) = 1 THEN Returned([c \in DOMAIN dicts |-> dicts[c][key_list[1]]])
          ELSE IF dicts = <<>> THEN Returned(<<>>)
          ELSE Returned([i \in DOMAIN key_list |-> [c \in DOMAIN dicts |-> dicts[c][key_list[i]]]])

\* ------------------------------------------------------------------------
\* Alignment pairs as the code reads them: Python list indices
\* ------------------------------------------------------------------------
\* x[i] on a list of length n: the position (from 1) read, or 0 for IndexError.
\* An index of -n .. -1 counts from the end of the list.
PyIndex(n, i) ==
  IF 0 <= i /\ i < n THEN i + 1
  ELSE IF -n <= i /\ i < 0 THEN n + i + 1
  ELSE 0

\* the alignment pairs with each index replaced by the position it reads in
\* the source sentence (first) and in the target sentence (second)
Positions(aligns, src_len, trg_len) ==
  [k \in DOMAIN aligns |-> <<PyIndex(src_len, aligns[k][1]), PyIndex(trg_len, aligns[k][2])>>]

\* calc_statistics(ref, outs, src=src, ref_aligns=ref_aligns) on a corpus of
\* one sentence: _calc_src_buckets_and_matches builds src_aligns with
\* src_aligns[src].append(trg) (line 121) and reads ref_match[x] for every x of
\* a non-empty src_align (line 133), once per output
aligned_calc_statistics(bk, src_sent, ref_sent, ref_align, out_sents) ==
  LET pos == Positions(ref_align, Len(src_sent), Len(ref_sent))
  IN IF \E k \in DOMAIN pos : pos[k][1] = 0 THEN Raised("IndexError")
     ELSE IF out_sents # <<>> /\ \E k \in DOMAIN pos : pos[k][2] = 0 THEN Raised("IndexError")
     ELSE Returned(calc_statistics(bk, <<ref_sent>>,
                                   [oi \in DOMAIN out_sents |-> <<out_sents[oi]>>],
                                   <<src_sent>>, <<pos>>))

\* calc_source_bucketed_matches on a corpus of one sentence: the loop over
\* out_align reads src_sent[src_index] and out_sent[trg_index] (lines 352-353),
\* the loop over ref_align reads src_sent[src_index] only (line 363); the
\* generator then yields its tuples until one divides by zero
aligned_bucketed_matches(bk, src_sent, ref_sent, out_sent, ref_align, out_align) ==
  LET out_pos == Positions(out_align, Len(src_sent), Len(out_sent))
      ref_pos_ == [k \in DOMAIN ref_align |->
                     <<PyIndex(Len(src_sent), ref_align[k][1]), ref_align[k][2]>>]
  IN IF \E k \in DOMAIN out_pos : out_pos[k][1] = 0 \/ out_pos[k][2] = 0 THEN Raised("IndexError")
     ELSE IF \E k \in DOMAIN ref_pos_ : ref_pos_[k][1] = 0 THEN Raised("IndexError")
     ELSE LET m == calc_source_bucketed_matches(bk, <<src_sent>>, <<ref_sent>>, <<out_sent>>,
                                                <<ref_pos_>>, <<out_pos>>)
          IN [raised |-> IF m.raised THEN "ZeroDivisionError" ELSE "none", value |-> m.yielded]

\* ------------------------------------------------------------------------
\* The loops of calc_source_bucketed_matches, one alignment edge at a time
\* ------------------------------------------------------------------------
\* ref_cnt of lines 346-350: the count of every word of the sentence pair in
\* ref_sent (a defaultdict gives 0 to a word not in ref_sent)
ref_cnt_of(ref_sent, out_sent) ==
  [w \in Range(ref_sent) \cup Range(out_sent) |-> Counter(ref_sent, w)]

\* an out_edge_step that counts every output edge as matched
out_edge_step_every(bk, src_sent, out_sent, edge, ref_cnt, matches) ==
  LET word == out_sent[PyIndex(Len(out_sent), edge[2])]
      bucket == calc_bucket(bk, src_sent[PyIndex(Len(src_sent), edge[1])], "None")
  IN [ref_cnt |-> [ref_cnt EXCEPT ![word] = @ - 1],
      matches |-> [matches EXCEPT ![bucket] = <<@[1] + 1, @[2], @[3] + 1>>]]

\* one round of the loop over out_align (lines 351-361)
out_edge_step(bk, src_sent, out_sent, edge, ref_cnt, matches) ==
  LET word == out_sent[PyIndex(Len(out_sent), edge[2])]
      bucket == calc_bucket(bk, src_sent[PyIndex(Len(src_sent), edge[1])], "None")
  IN IF ref_cnt[word] > 0
     THEN [ref_cnt |-> [ref_cnt EXCEPT ![word] = @ - 1],
           matches |-> [matches EXCEPT ![bucket] = <<@[1] + 1, @[2], @[3] + 1>>]]
     ELSE [ref_cnt |-> ref_cnt,
           matches |-> [matches EXCEPT ![bucket] = <<@[1], @[2], @[3] + 1>>]]

\* one round of the loop over ref_align (lines 362-367)
ref_edge_step(bk, src_sent, edge, matches) ==
  LET bucket == calc_bucket(bk, src_sent[PyIndex(Len(src_sent), edge[1])], "None")
  IN [matches EXCEPT ![bucket] = <<@[1], @[2] + 1, @[3]>>]

\* legacy WordBucketer.calc_bucketed_matches (bucketers.py): the counts
\* [both_tot, ref_tot, out_tot] of every bucket
legacy_matches(bk, ref, out) ==
  [b \in Buckets(bk) |->
     LET tally(f(_, _)) ==
           SumSeq([i \in 1..Min(Len(ref), Len(out)) |->
              LET words == {w \in Range(ref[i]) \cup Range(out[i]) : calc_bucket(bk, w, "None") = b}
              IN SumOver(words, [w \in words |-> f(Counter(ref[i], w), Counter(out[i], w))])])
         both(r, o) == Min(r, o)
         refs(r, o) == r
         outs(r, o) == o
     IN <<tally(both), tally(refs), tally(outs)>>]

\* ------------------------------------------------------------------------
\* Python floats (IEEE 754 binary64), bit for bit
\* ------------------------------------------------------------------------
\* Where a claim compares the results of different float computations, the
\* rounding of every operation is modelled.  A wide natural is three limbs
\* <<l1, l2, l3>> of value l1 + l2 * 2^24 + l3 * 2^48 with l1, l2 < 2^24.  A
\* non-negative finite float is [m, e] of value m * 2^e, where m is zero or
\* 2^52 <= m < 2^53.  Exponents stay far from the subnormal and overflow
\* ranges for the counts and constants of this program.
LimbBase == 16777216

WZero == <<0, 0, 0>>

\* a small int as a wide natural
WInt(n) == <<n % LimbBase, n \div LimbBase, 0>>

WLt(a, b) ==
  \/ a[3] < b[3]
  \/ a[3] = b[3] /\ a[2] < b[2]
  \/ a[3] = b[3] /\ a[2] = b[2] /\ a[1] < b[1]

WAdd(a, b) ==
  LET x1 == a[1] + b[1]
      x2 == a[2] + b[2] + x1 \div LimbBase
  IN <<x1 % LimbBase, x2 % LimbBase, a[3] + b[3] + x2 \div LimbBase>>

\* a - b for a >= b
WSub(a, b) ==
  LET x1 == a[1] - b[1]
      x2 == a[2] - b[2] - (IF x1 < 0 THEN 1 ELSE 0)
  IN <<x1 % LimbBase, x2 % LimbBase, a[3] - b[3] - (IF x2 < 0 THEN 1 ELSE 0)>>

WDouble(a) == WAdd(a, a)

WHalf(a) ==
  <<a[1] \div 2 + (a[2] % 2) * (LimbBase \div 2),
    a[2] \div 2 + (a[3] % 2) * (LimbBase \div 2),
    a[3] \div 2>>

WOdd(a) == a[1] % 2 = 1

\* a * 2^k
RECURSIVE WShl(_, _)
WShl(a, k) == IF k = 0 \/ a = WZero THEN a ELSE WShl(WDouble(a), k - 1)

\* a \div 2^k, and whether a one was shifted out
RECURSIVE WShr(_, _, _)
WShr(a, k, s) ==
  IF k = 0 \/ a = WZero THEN [m |-> a, s |-> s]
  ELSE WShr(WHalf(a), k - 1, IF WOdd(a) THEN 1 ELSE s)

\* 2^52 and 2^53
Two52 == <<0, 0, 16>>
Two53 == <<0, 0, 32>>

DZero == [m |-> WZero, e |-> 0]

\* 1.0
DOne == [m |-> Two52, e |-> -52]

\* round to nearest, ties to even: m * 2^e with m >= 2^52, followed by a
\* guard bit g of weight 2^(e-1) and a sticky bit s for everything below it
RECURSIVE DRound(_, _, _, _)
DRound(m, e, g, s) ==
  IF ~WLt(m, Two53)
  THEN DRound(WHalf(m), e + 1, IF WOdd(m) THEN 1 ELSE 0, IF g = 1 \/ s = 1 THEN 1 ELSE 0)
  ELSE IF g = 1 /\ (s = 1 \/ WOdd(m))
  THEN LET up == WAdd(m, WInt(1))
       IN IF up = Two53 THEN [m |-> Two52, e |-> e + 1] ELSE [m |-> up, e |-> e]
  ELSE [m |-> m, e |-> e]

\* the float of an exactly known m * 2^e, m < 2^31
RECURSIVE DExact(_, _)
DExact(m, e) ==
  IF m = WZero THEN DZero
  ELSE IF m[3] = 0 THEN DExact(<<0, m[1], m[2]>>, e - 24)
  ELSE IF WLt(m, Two52) THEN DExact(WDouble(m), e - 1)
  ELSE DRound(m, e, 0, 0)

\* float(n) of a non-negative int
DInt(n) == DExact(WInt(n), 0)

\* x <= y for two positive floats
DLe(x, y) == x.e < y.e \/ (x.e = y.e /\ ~WLt(y.m, x.m))

\* x + y: the smaller operand is aligned two bits below the larger one, and
\* what falls below that is the sticky bit
DAdd(x, y) ==
  IF x.m = WZero THEN y
  ELSE IF y.m = WZero THEN x
  ELSE LET hi == IF x.e >= y.e THEN x ELSE y
           lo == IF x.e >= y.e THEN y ELSE x
           d == hi.e - lo.e
           k == IF d > 2 THEN d - 2 ELSE 0
           low == WShr(lo.m, k, 0)
       IN DRound(WAdd(WShl(hi.m, d - k), low.m), lo.e + k, 0, low.s)

\* 2 * x
DTwice(x) == IF x.m = WZero THEN x ELSE [x EXCEPT !.e = @ + 1]

\* k steps of the long division by d; st is [q, r], the quotient bits so far
\* and the running remainder
RECURSIVE DivLoop(_, _, _)
DivLoop(st, d, k) ==
  IF k = 0 THEN st
  ELSE IF WLt(st.r, d)
  THEN DivLoop([q |-> WDouble(st.q), r |-> WDouble(st.r)], d, k - 1)
  ELSE DivLoop([q |-> WAdd(WDouble(st.q), WInt(1)), r |-> WDouble(WSub(st.r, d))], d, k - 1)

\* x / y for y > 0: the quotient floor(x.m * 2^55 / y.m) has at least 55 bits
DDiv(x, y) ==
  IF x.m = WZero THEN DZero
  ELSE LET qr == DivLoop([q |-> WZero, r |-> x.m], y.m, 56)
       IN DRound(qr.q, x.e - y.e - 55, 0, IF qr.r = WZero THEN 0 ELSE 1)

\* ------------------------------------------------------------------------
\* Salience (compare_mt/stat_utils.py)
\* ------------------------------------------------------------------------
\* A count dictionary is a defaultdict(lambda: 0), as compare_ngrams returns
\* it: a function on its keys; d[k] of an absent key is 0 and inserts k.
dict_get(d, k) == IF k \in DOMAIN d THEN d[k] ELSE 0

dict_touch(d, keys) == [k \in DOMAIN d \cup keys |-> dict_get(d, k)]

\* line 17 with alpha instead of 2*alpha in the divisor
salience_score_alpha(c1, c2, alpha) ==
  DDiv(DAdd(DInt(c1), alpha), DAdd(DInt(c1 + c2), alpha))

\* line 17: (dict1[k]+alpha) / (dict1[k] + dict2[k] + 2*alpha) for the counts
\* c1 = dict1[k], c2 = dict2[k] and the float alpha
salience_score(c1, c2, alpha) ==
  DDiv(DAdd(DInt(c1), alpha), DAdd(DInt(c1 + c2), DTwice(alpha)))

\* extract_salient_features looping over the keys of dict1 only
extract_salient_features_dict1(dict1, dict2, alpha) ==
  LET all_keys == DOMAIN dict1
  IN [scores |-> [k \in all_keys |->
                    salience_score(dict_get(dict1, k), dict_get(dict2, k), alpha)],
      dict1 |-> dict_touch(dict1, all_keys),
      dict2 |-> dict_touch(dict2, all_keys)]

\* extract_salient_features: the scores, and the two dictionaries after the
\* lookups dict1[k] and dict2[k] of every key of the union
extract_salient_features(dict1, dict2, alpha) ==
  LET all_keys == DOMAIN dict1 \cup DOMAIN dict2
  IN [scores |-> [k \in all_keys |->
                    salience_score(dict_get(dict1, k), dict_get(dict2, k), alpha)],
      dict1 |-> dict_touch(dict1, all_keys),
      dict2 |-> dict_touch(dict2, all_keys)]

\* ------------------------------------------------------------------------
\* State
\* ------------------------------------------------------------------------
VARIABLES
  pc,            \* position of the running operation
  scorer,        \* the scorer object: "bleu", "wer" or "sent"
  gold,          \* reference corpus: a sequence of sentences
  sys1, sys2,    \* system outputs: sequences of [words, metric]
  num_samples,   \* eval_with_paired_bootstrap argument
  sample_ratio,  \* eval_with_paired_bootstrap argument, <<num, den>>
  ids,           \* the id list shuffled in place by every round
  reduced_ids,   \* the sample of the last round
  wins,          \* [left wins, right wins, ties]
  sys1_scores, sys2_scores,
  cache_stats1, cache_stats2,
  ret,           \* value returned by eval_with_paired_bootstrap
  sent_ids,      \* replay: the selected sentence ids
  cached_score,  \* replay: score_cached_corpus(sent_ids, cache_stats1)
  direct_score,  \* replay: score_corpus on the selected sub-corpus
  bucketer,      \* the WordBucketer object
  bk_ref,        \* calc_statistics arguments: ref,
  bk_outs,       \*   outs (a list of output corpora),
  bk_src,        \*   src (<<>> for None)
  bk_ref_aligns, \*   and ref_aligns
  bk_stats,      \* what calc_statistics returned
  bk_head, bk_tail, \* what it returned on ref[:k] and on ref[k:]
  bk_details,    \* calc_bucket_details: the statistics lists, then the result
  bk_srcm,       \* what calc_source_bucketed_matches yielded
  bk_pair,       \* what _calc_trg_buckets_and_matches returned
  bk_legacy,     \* the counts of the legacy calc_bucketed_matches
  matches_left, matches_right, \* two systems' count dictionaries
  alpha,         \* the smoothing constant
  scores_lr, scores_rl \* extract_salient_features(left, right), (right, left)

bootVars == <<num_samples, sample_ratio, ids, reduced_ids, wins, sys1_scores,
              sys2_scores, cache_stats2, ret>>
replayVars == <<sent_ids, cached_score, direct_score>>
corpusVars == <<scorer, gold, sys1, sys2>>
bucketVars == <<bucketer, bk_ref, bk_outs, bk_src, bk_ref_aligns, bk_stats, bk_head,
                bk_tail, bk_details, bk_srcm, bk_pair, bk_legacy>>
salVars == <<matches_left, matches_right, alpha, scores_lr, scores_rl>>

VARIABLES
  ed_a, ed_b, ed_c, \* three sentences handed to WERScorer._edit_distance
  ed_dist,       \* the distances it returned, by pair
  op_scorer,     \* the scorer a single operation is called on
  op_ref, op_out, \* its ref and out arguments (sentences or corpora)
  op_src,        \* its src argument: <<>> for None, <<corpus>> when given
  op_result,     \* what the call returned or raised
  al_src, al_ref, al_outs, \* source-side matching: one sentence and its outputs
  al_aligns,     \* its ref_aligns, with Python list indices
  al_result,     \* what _calc_src_buckets_and_matches returned or raised
  cache_key_list, \* the cache_key_list of a report
  cache_num_out, \* len(outs) of the report built from cache_dicts
  cache_values,  \* per system and key, the statistic a report computes
  cache_dicts,   \* the cache_dicts argument: <<>> for None, <<list>> otherwise
  cache_call,    \* the value_list of the last return_cache_dict call
  cache_ret,     \* what that call returned or raised
  cache_direct,  \* per key, the values of the direct computation
  cache_extracted, \* what extract_cache_dicts returned or raised
  bk_ref_labels, \* the labels of the reference sentence, one per token
  bk_out_labels, \* the labels of the output sentence, one per token
  co_value,      \* the value handed to cutoff_into_bucket
  co_bucket,     \* the bucket id it returned
  sm_k,          \* calc_source_bucketed_matches: alignment edges processed
  sm_ref_cnt,    \*   ref_cnt, the running reference-token multiset
  sm_matches     \*   matches[bucket] = [both, ref, out]

editVars == <<ed_a, ed_b, ed_c, ed_dist>>
opVars == <<op_scorer, op_ref, op_out, op_src, op_result>>
alignVars == <<al_src, al_ref, al_outs, al_aligns, al_result>>
cacheVars == <<cache_key_list, cache_num_out, cache_values, cache_dicts, cache_call, cache_ret,
              cache_direct, cache_extracted>>
labelVars == <<bk_ref_labels, bk_out_labels>>
cutoffVars == <<co_value, co_bucket>>
loopVars == <<sm_k, sm_ref_cnt, sm_matches>>
tailVars == <<labelVars, cutoffVars, loopVars>>
lateVars == <<editVars, opVars, alignVars, cacheVars, tailVars>>

Scorers == {"bleu", "wer", "sent"}
SampleRatios == {<<1, 2>>, <<1, 1>>}

Sentences == SeqsUpTo(1..VocabSize, MaxSentLen)

\* The sentences the corpora are made of.  For a sentence-factored scorer an
\* output sentence carries the value score_sentence gives it.
GoldPool == {<<>>, <<1>>}
OutPool(sc) ==
  IF sc = "sent" THEN {[words |-> <<1>>, metric |-> m] : m \in {0, 1}}
  ELSE {[words |-> w, metric |-> 0] : w \in {<<>>, <<1>>}}

\* The corpora of the bootstrap: every corpus of at most one sentence, a
\* corpus of three sentences of which each system wins one and one is a tie,
\* and two with a system output of another length than the reference
BootCorpora(sc) ==
  LET hi == IF sc = "sent" THEN [words |-> <<1>>, metric |-> 1] ELSE [words |-> <<1>>, metric |-> 0]
      lo == IF sc = "sent" THEN [words |-> <<1>>, metric |-> 0] ELSE [words |-> <<>>, metric |-> 0]
  IN {[gold |-> g, sys1 |-> a, sys2 |-> b] :
        g \in {<<>>}, a \in {<<>>}, b \in {<<>>}}
     \cup {[gold |-> <<g>>, sys1 |-> <<a>>, sys2 |-> <<b>>] :
             g \in GoldPool, a \in OutPool(sc), b \in OutPool(sc)}
     \cup {[gold |-> <<<<1>>, <<1>>, <<1>>>>, sys1 |-> <<hi, lo, hi>>, sys2 |-> <<lo, hi, hi>>]}
     \cup {[gold |-> <<<<1>>>>, sys1 |-> <<hi>>, sys2 |-> <<hi, lo>>],
           [gold |-> <<<<1>>>>, sys1 |-> <<>>, sys2 |-> <<hi>>]}

ReplayGoldPool == {<<>>, <<1>>, <<1, 2>>, <<1, 1>>}
ReplayOutPool(sc) ==
  IF sc = "sent" THEN {[words |-> <<1>>, metric |-> m] : m \in {0, 1, 3}}
  ELSE {[words |-> w, metric |-> 0] : w \in {<<>>, <<1>>, <<2, 1>>, <<1, 1>>}}

NoBoot ==
  /\ num_samples = 0 /\ sample_ratio = <<1, 1>> /\ ids = <<>> /\ reduced_ids = <<>>
  /\ wins = <<0, 0, 0>> /\ sys1_scores = <<>> /\ sys2_scores = <<>>
  /\ cache_stats2 = <<>> /\ ret = <<>>

NoReplay == sent_ids = <<>> /\ cached_score = <<>> /\ direct_score = <<>>

NoCorpus == scorer = "none" /\ gold = <<>> /\ sys1 = <<>> /\ sys2 = <<>> /\ cache_stats1 = <<>>

NoResults ==
  /\ bk_stats = <<>> /\ bk_head = <<>> /\ bk_tail = <<>> /\ bk_details = <<>>
  /\ bk_srcm = <<>> /\ bk_pair = <<>> /\ bk_legacy = <<>>

NoBucket ==
  /\ bucketer = <<>> /\ bk_ref = <<>> /\ bk_outs = <<>> /\ bk_src = <<>> /\ bk_ref_aligns = <<>>
  /\ NoResults

NoEdit == ed_a = <<>> /\ ed_b = <<>> /\ ed_c = <<>> /\ ed_dist = <<>>

NoOp ==
  /\ op_scorer = "none" /\ op_ref = <<>> /\ op_out = <<>> /\ op_src = <<>>
  /\ op_result = <<>>

NoAlign ==
  /\ al_src = <<>> /\ al_ref = <<>> /\ al_outs = <<>> /\ al_aligns = <<>> /\ al_result = <<>>

NoCache ==
  /\ cache_key_list = <<>> /\ cache_num_out = 0
  /\ cache_values = <<>> /\ cache_dicts = <<>> /\ cache_call = <<>> /\ cache_ret = <<>>
  /\ cache_direct = <<>> /\ cache_extracted = <<>>

NoLabel == bk_ref_labels = <<>> /\ bk_out_labels = <<>>

NoCutoff == co_value = 0 /\ co_bucket = 0

NoLoop == sm_k = 0 /\ sm_ref_cnt = <<>> /\ sm_matches = <<>>

NoTail == NoLabel /\ NoCutoff /\ NoLoop

NoLate == NoEdit /\ NoOp /\ NoAlign /\ NoCache /\ NoTail

NoSalience ==
  /\ matches_left = <<>> /\ matches_right = <<>> /\ alpha = <<1, 1>>
  /\ scores_lr = <<>> /\ scores_rl = <<>>

\* ------------------------------------------------------------------------
\* Paired bootstrap (compare_mt/sign_utils.py)
\* ------------------------------------------------------------------------
Shuffles(s) ==
  {[i \in DOMAIN s |-> s[p[i]]] :
     p \in {q \in [DOMAIN s -> DOMAIN s] : \A i, j \in DOMAIN s : q[i] = q[j] => i = j}}

\* int(x) of a non-negative exact quotient
IntOf(n, d) == n \div d

\* list.sort() of floats
RECURSIVE InsertSorted(_, _)
InsertSorted(x, s) ==
  IF s = <<>> THEN <<x>>
  ELSE IF FLt(x, s[1]) THEN <<x>> \o s
  ELSE <<s[1]>> \o InsertSorted(x, Tail(s))

RECURSIVE Sorted(_)
Sorted(s) == IF s = <<>> THEN <<>> ELSE InsertSorted(s[Len(s)], Sorted(SubSeq(s, 1, Len(s) - 1)))

\* numpy.median of a sorted list
np_median(s) ==
  IF Len(s) = 0 \/ \E i \in DOMAIN s : IsNaN(s[i]) THEN NaN
  ELSE IF Len(s) % 2 = 1 THEN s[(Len(s) + 1) \div 2]
  ELSE FDiv(FAdd(s[Len(s) \div 2], s[Len(s) \div 2 + 1]), Flt(2))

Stats(scores) ==
  [mean |-> np_mean(scores), median |-> np_median(scores),
   lower_bound |-> scores[IntOf(num_samples * 25, 1000) + 1],
   upper_bound |-> scores[IntOf(num_samples * 975, 1000) + 1]]

\* the sample of one round: a prefix of the shuffled ids
reduced(shuffled) == SubSeq(shuffled, 1, IntOf(Len(shuffled) * sample_ratio[1], sample_ratio[2]))

\* sample_and_compare, lines 34-39, with two independent ifs instead of if/elif
tally_two_ifs(w, sys1_score, sys2_score) ==
  LET w1 == IF FGt(sys1_score, sys2_score) THEN [w EXCEPT ![1] = @ + 1] ELSE w
  IN IF FLt(sys1_score, sys2_score) THEN [w1 EXCEPT ![2] = @ + 1]
     ELSE [w1 EXCEPT ![3] = @ + 1]

\* sample_and_compare, lines 34-39: the three-way tally
tally(w, sys1_score, sys2_score) ==
  IF FGt(sys1_score, sys2_score) THEN [w EXCEPT ![1] = @ + 1]
  ELSE IF FLt(sys1_score, sys2_score) THEN [w EXCEPT ![2] = @ + 1]
  ELSE [w EXCEPT ![3] = @ + 1]

\* eval_with_paired_bootstrap, lines 62-72: the caches are built once
BootstrapBegin ==
  /\ pc = "boot"
  /\ IF Len(gold) # Len(sys1) \/ Len(gold) # Len(sys2)
     THEN /\ ret' = Raised("ValueError")
          /\ pc' = "raised"
          /\ UNCHANGED <<sys1_scores, sys2_scores, wins, ids, cache_stats1, cache_stats2>>
     ELSE /\ sys1_scores' = <<>>
          /\ sys2_scores' = <<>>
          /\ wins' = <<0, 0, 0>>
          /\ ids' = [i \in 1..Len(gold) |-> i]
          /\ cache_stats1' = cache_stats(scorer, gold, sys1)
          /\ cache_stats2' = cache_stats(scorer, gold, sys2)
          /\ pc' = "rounds"
          /\ UNCHANGED ret
  /\ UNCHANGED <<corpusVars, lateVars, num_samples, sample_ratio, reduced_ids, replayVars, bucketVars, salVars>>

\* sample_and_compare with a draw of its own for the second system
sample_and_compare_two_draws ==
  /\ pc = "rounds"
  /\ Len(sys1_scores) < num_samples
  /\ \E shuffled \in Shuffles(ids) :
       LET r == reduced(shuffled)
           r2 == reduced(ids)
           cached == Len(cache_stats1) # 0 /\ Len(cache_stats2) # 0
           sys1_score == IF cached THEN score_cached_corpus(scorer, r, cache_stats1)
                         ELSE score_corpus(scorer, Select(gold, r), Select(sys1, r))
           sys2_score == IF cached THEN score_cached_corpus(scorer, r2, cache_stats2)
                         ELSE score_corpus(scorer, Select(gold, r2), Select(sys2, r2))
       IN /\ ids' = shuffled
          /\ reduced_ids' = r
          /\ wins' = tally(wins, sys1_score, sys2_score)
          /\ sys1_scores' = Append(sys1_scores, sys1_score)
          /\ sys2_scores' = Append(sys2_scores, sys2_score)
  /\ UNCHANGED <<pc, corpusVars, lateVars, num_samples, sample_ratio, cache_stats1, cache_stats2,
                 ret, replayVars, bucketVars, salVars>>

\* one iteration of the loop of line 74: sample_and_compare
sample_and_compare ==
  /\ pc = "rounds"
  /\ Len(sys1_scores) < num_samples
  /\ \E shuffled \in Shuffles(ids) :
       LET r == reduced(shuffled)
           cached == Len(cache_stats1) # 0 /\ Len(cache_stats2) # 0
           sys1_score == IF cached THEN score_cached_corpus(scorer, r, cache_stats1)
                         ELSE score_corpus(scorer, Select(gold, r), Select(sys1, r))
           sys2_score == IF cached THEN score_cached_corpus(scorer, r, cache_stats2)
                         ELSE score_corpus(scorer, Select(gold, r), Select(sys2, r))
       IN /\ ids' = shuffled
          /\ reduced_ids' = r
          /\ wins' = tally(wins, sys1_score, sys2_score)
          /\ sys1_scores' = Append(sys1_scores, sys1_score)
          /\ sys2_scores' = Append(sys2_scores, sys2_score)
  /\ UNCHANGED <<pc, corpusVars, lateVars, num_samples, sample_ratio, cache_stats1, cache_stats2,
                 ret, replayVars, bucketVars, salVars>>

\* eval_with_paired_bootstrap, lines 77-87
BootstrapEnd ==
  /\ pc = "rounds"
  /\ Len(sys1_scores) = num_samples
  /\ sys1_scores' = Sorted(sys1_scores)
  /\ sys2_scores' = Sorted(sys2_scores)
  /\ ret' = [wins |-> [i \in 1..3 |-> DDiv(DInt(wins[i]), DInt(num_samples))],
             sys1_stats |-> Stats(sys1_scores'),
             sys2_stats |-> Stats(sys2_scores')]
  /\ pc' = "done"
  /\ UNCHANGED <<corpusVars, lateVars, num_samples, sample_ratio, ids, reduced_ids, wins,
                 cache_stats1, cache_stats2, replayVars, bucketVars, salVars>>

vars == <<pc, scorer, gold, sys1, sys2, num_samples, sample_ratio, ids, reduced_ids,
          wins, sys1_scores, sys2_scores, cache_stats1, cache_stats2, ret,
          sent_ids, cached_score, direct_score, bucketer, bk_ref, bk_outs, bk_src,
          bk_ref_aligns, bk_stats, bk_head, bk_tail, bk_details, bk_srcm, bk_pair,
          bk_legacy, matches_left, matches_right, alpha, scores_lr, scores_rl,
          ed_a, ed_b, ed_c, ed_dist, op_scorer, op_ref, op_out, op_src, op_result,
          al_src, al_ref, al_outs, al_aligns, al_result,
          cache_key_list, cache_num_out, cache_values, cache_dicts, cache_call, cache_ret,
          cache_direct, cache_extracted, bk_ref_labels, bk_out_labels, co_value, co_bucket,
          sm_k, sm_ref_cnt, sm_matches>>

Init ==
  /\ pc = "boot"
  /\ scorer \in {"wer", "sent"}
  /\ \E c \in BootCorpora(scorer) : gold = c.gold /\ sys1 = c.sys1 /\ sys2 = c.sys2
  /\ num_samples \in 1..MaxSamples
  /\ sample_ratio \in SampleRatios
  /\ ids = <<>> /\ reduced_ids = <<>>
  /\ wins = <<0, 0, 0>> /\ sys1_scores = <<>> /\ sys2_scores = <<>>
  /\ cache_stats1 = <<>> /\ cache_stats2 = <<>> /\ ret = <<>>
  /\ NoReplay /\ NoBucket /\ NoSalience /\ NoLate

Next == BootstrapBegin \/ sample_and_compare \/ BootstrapEnd

Spec == Init /\ [][Next]_vars

\* ------------------------------------------------------------------------
\* Cache and replay of one system (tests/test_scorers.py, test_score_cached_corpus)
\* ------------------------------------------------------------------------
\* the lists of distinct sentence ids of a corpus of n sentences, in any order
IdLists(n) ==
  {s \in SeqsUpTo(1..n, n) : \A i, j \in DOMAIN s : s[i] = s[j] => i = j}

\* cache_stats1 = scorer.cache_stats(ref, out1)
ReplayCache ==
  /\ pc = "replay"
  /\ cache_stats1' = cache_stats(scorer, gold, sys1)
  /\ pc' = "cached"
  /\ UNCHANGED <<corpusVars, lateVars, bootVars, replayVars, bucketVars, salVars>>

\* score_cached_corpus(ids, cache) next to score_corpus on the selected sentences
ReplaySubset ==
  /\ pc \in {"cached", "scored"}
  /\ \E S \in IdLists(Len(gold)) :
       /\ sent_ids' = S
       /\ cached_score' = score_cached_corpus(scorer, S, cache_stats1)
       /\ direct_score' = score_corpus(scorer, Select(gold, S), Select(sys1, S))
  /\ pc' = "scored"
  /\ UNCHANGED <<corpusVars, lateVars, bootVars, cache_stats1, bucketVars, salVars>>

InitReplay ==
  /\ pc = "replay"
  /\ scorer \in Scorers
  /\ \E n \in 0..MaxCorpus :
       /\ gold \in [1..n -> ReplayGoldPool]
       /\ sys1 \in [1..n -> ReplayOutPool(scorer)]
  /\ sys2 = <<>>
  /\ cache_stats1 = <<>>
  /\ NoBoot
  /\ NoReplay /\ NoBucket /\ NoSalience /\ NoLate

NextReplay == ReplayCache \/ ReplaySubset

SpecReplay == InitReplay /\ [][NextReplay]_vars

\* ------------------------------------------------------------------------
\* Salient n-grams of two systems (compare_mt_main.py, generate_ngram_report)
\* ------------------------------------------------------------------------
SalienceKeys == {1, 2}

\* the alpha of the report, as the quotient the float is parsed from
AlphaPool == {<<1, 1>>, <<1, 2>>, <<29, 10>>}

CountDicts == UNION {[K -> 1..MaxCount] : K \in SUBSET SalienceKeys}

\* extract_salient_features(matches[left], matches[right], alpha=alpha)
ExtractLeftRight ==
  /\ pc \in {"salience", "right_left"}
  /\ LET res == extract_salient_features(matches_left, matches_right, alpha)
     IN /\ scores_lr' = res.scores
        /\ matches_left' = res.dict1
        /\ matches_right' = res.dict2
  /\ pc' = IF pc = "salience" THEN "left_right" ELSE "both"
  /\ UNCHANGED <<corpusVars, lateVars, bootVars, cache_stats1, replayVars, bucketVars, alpha, scores_rl>>

\* the same report with the two systems exchanged
ExtractRightLeft ==
  /\ pc \in {"salience", "left_right"}
  /\ LET res == extract_salient_features(matches_right, matches_left, alpha)
     IN /\ scores_rl' = res.scores
        /\ matches_right' = res.dict1
        /\ matches_left' = res.dict2
  /\ pc' = IF pc = "salience" THEN "right_left" ELSE "both"
  /\ UNCHANGED <<corpusVars, lateVars, bootVars, cache_stats1, replayVars, bucketVars, alpha, scores_lr>>

InitSalience ==
  /\ pc = "salience"
  /\ NoCorpus /\ NoBoot /\ NoReplay /\ NoBucket /\ NoLate
  /\ matches_left \in CountDicts
  /\ matches_right \in CountDicts
  /\ alpha \in {DDiv(DInt(a[1]), DInt(a[2])) : a \in AlphaPool}
  /\ scores_lr = <<>> /\ scores_rl = <<>>

NextSalience == ExtractLeftRight \/ ExtractRightLeft

SpecSalience == InitSalience /\ [][NextSalience]_vars

\* ------------------------------------------------------------------------
\* Word accuracy by bucket (compare_mt/bucketers.py, WordBucketer)
\* ------------------------------------------------------------------------
\* FreqWordBucketer(freq_counts=..., bucket_cutoffs=...)
BucketerPool ==
  {[freq_counts |-> (1 :> 1 @@ 2 :> 1), bucket_cutoffs |-> <<1, 2>>],
   [freq_counts |-> (1 :> 0 @@ 2 :> 2), bucket_cutoffs |-> <<1, 2>>],
   [freq_counts |-> (1 :> 3), bucket_cutoffs |-> <<2>>]}

\* The sentences of a corpus bucketed on the target side (src is None) ...
TrgItems ==
  {[ref |-> r, out |-> o] :
     r \in {<<1>>, <<1, 2>>, <<2, 2>>}, o \in {<<>>, <<2>>, <<2, 1>>}}

\* ... and on the source side, with the alignment of source to reference
SrcItems ==
  {[src |-> i.src, ref |-> i.ref, ref_aligns |-> i.ref_aligns, out |-> o] :
     i \in {[src |-> <<1, 2>>, ref |-> <<1, 2>>, ref_aligns |-> <<<<1, 1>>, <<2, 2>>>>],
            [src |-> <<2>>, ref |-> <<1, 1>>, ref_aligns |-> <<<<1, 1>>, <<1, 2>>>>],
            [src |-> <<1, 2>>, ref |-> <<2>>, ref_aligns |-> <<<<2, 1>>>>]},
     o \in {<<1>>, <<2, 1>>}}

\* the output alignments offered for one sentence: none, word by word, or
\* every output word aligned to the first source word
AlignOptions(src_sent, out_sent) ==
  {<<>>, [i \in 1..Min(Len(src_sent), Len(out_sent)) |-> <<i, i>>],
   [i \in 1..(IF src_sent = <<>> THEN 0 ELSE Len(out_sent)) |-> <<1, i>>]}

\* x[:k] and x[k:] of a list, and of None
SliceTo(x, k) == SubSeq(x, 1, Min(k, Len(x)))
SliceFrom(x, k) == SubSeq(x, Min(k, Len(x)) + 1, Len(x))

\* statistics, lists = bucketer.calc_statistics(ref, outs, src=src, ref_aligns=ref_aligns)
CalcStatistics ==
  /\ pc = "bucket"
  /\ bk_stats' = calc_statistics(bucketer, bk_ref, bk_outs, bk_src, bk_ref_aligns)
  /\ pc' = "stats"
  /\ UNCHANGED <<corpusVars, lateVars, bootVars, cache_stats1, replayVars, salVars, bucketer, bk_ref,
                 bk_outs, bk_src, bk_ref_aligns, bk_head, bk_tail, bk_details, bk_srcm,
                 bk_pair, bk_legacy>>

\* calc_statistics on the sentences [0..k) and on the sentences [k..n)
CalcStatisticsSplit ==
  /\ pc = "stats"
  /\ \E k \in 0..Len(bk_ref) :
       /\ bk_head' = calc_statistics(bucketer, SliceTo(bk_ref, k),
                                     [oi \in DOMAIN bk_outs |-> SliceTo(bk_outs[oi], k)],
                                     SliceTo(bk_src, k), SliceTo(bk_ref_aligns, k))
       /\ bk_tail' = calc_statistics(bucketer, SliceFrom(bk_ref, k),
                                     [oi \in DOMAIN bk_outs |-> SliceFrom(bk_outs[oi], k)],
                                     SliceFrom(bk_src, k), SliceFrom(bk_ref_aligns, k))
  /\ pc' = "split"
  /\ UNCHANGED <<corpusVars, lateVars, bootVars, cache_stats1, replayVars, salVars, bucketer, bk_ref,
                 bk_outs, bk_src, bk_ref_aligns, bk_stats, bk_details, bk_srcm, bk_pair,
                 bk_legacy>>

\* one round of calc_bucket_details on the lists calc_statistics returned;
\* my_out_totals_list[0] raises IndexError on an empty corpus
CalcBucketDetails ==
  /\ pc = "stats"
  /\ Len(bk_ref) > 0
  /\ \E ratio \in SampleRatios :
       LET n == Len(bk_stats.my_ref_total_list)
           sample_size == (n * ratio[1] + ratio[2] - 1) \div ratio[2]
       IN \E rids \in [1..sample_size -> 1..n] :
            bk_details' = [reduced_ids |-> rids,
                           statistics |-> bucket_details_round(bucketer, bk_stats, rids)]
  /\ pc' = "details"
  /\ UNCHANGED <<corpusVars, lateVars, bootVars, cache_stats1, replayVars, salVars, bucketer, bk_ref,
                 bk_outs, bk_src, bk_ref_aligns, bk_stats, bk_head, bk_tail, bk_srcm, bk_pair,
                 bk_legacy>>

\* list(bucketer.calc_source_bucketed_matches(src, ref, out, ref_aligns, out_aligns))
CalcSourceBucketedMatches ==
  /\ pc = "bucket"
  /\ bk_src # <<>>
  /\ \E out_aligns \in {f \in [DOMAIN bk_src -> UNION {AlignOptions(bk_src[i], bk_outs[1][i]) :
                                                        i \in DOMAIN bk_src}] :
                          \A i \in DOMAIN bk_src : f[i] \in AlignOptions(bk_src[i], bk_outs[1][i])} :
       bk_srcm' = calc_source_bucketed_matches(bucketer, bk_src, bk_ref, bk_outs[1],
                                               bk_ref_aligns, out_aligns)
  /\ pc' = "srcm"
  /\ UNCHANGED <<corpusVars, lateVars, bootVars, cache_stats1, replayVars, salVars, bucketer, bk_ref,
                 bk_outs, bk_src, bk_ref_aligns, bk_stats, bk_head, bk_tail, bk_details,
                 bk_pair, bk_legacy>>

InitBucket ==
  /\ pc = "bucket"
  /\ NoCorpus /\ NoBoot /\ NoReplay /\ NoSalience /\ NoLate
  /\ bucketer \in BucketerPool
  /\ \E n \in 0..MaxCorpus :
       \/ \E items \in [1..n -> TrgItems] :
             /\ bk_ref = [i \in 1..n |-> items[i].ref]
             /\ bk_outs = <<[i \in 1..n |-> items[i].out]>>
             /\ bk_src = <<>> /\ bk_ref_aligns = <<>>
       \/ \E items \in [1..n -> SrcItems] :
             /\ bk_ref = [i \in 1..n |-> items[i].ref]
             /\ bk_outs = <<[i \in 1..n |-> items[i].out]>>
             /\ bk_src = [i \in 1..n |-> items[i].src]
             /\ bk_ref_aligns = [i \in 1..n |-> items[i].ref_aligns]
  /\ NoResults

NextBucket ==
  CalcStatistics \/ CalcStatisticsSplit \/ CalcBucketDetails \/ CalcSourceBucketedMatches

SpecBucket == InitBucket /\ [][NextBucket]_vars

\* ------------------------------------------------------------------------
\* One sentence pair under the target-side matcher and under the legacy tally
\* ------------------------------------------------------------------------
\* WordBucketer._calc_trg_buckets_and_matches(ref_sent, None, [out_sent], None)
CalcTrgBucketsAndMatches ==
  /\ pc \in {"match", "legacy"}
  /\ bk_pair' = calc_trg_buckets_and_matches(bucketer, bk_ref[1], <<bk_outs[1][1]>>)
  /\ pc' = IF pc = "match" THEN "trg" ELSE "both"
  /\ UNCHANGED <<corpusVars, lateVars, bootVars, cache_stats1, replayVars, salVars, bucketer, bk_ref,
                 bk_outs, bk_src, bk_ref_aligns, bk_stats, bk_head, bk_tail, bk_details,
                 bk_srcm, bk_legacy>>

\* legacy WordBucketer.calc_bucketed_matches(ref, out)
CalcBucketedMatches ==
  /\ pc \in {"match", "trg"}
  /\ bk_legacy' = legacy_matches(bucketer, bk_ref, bk_outs[1])
  /\ pc' = IF pc = "match" THEN "legacy" ELSE "both"
  /\ UNCHANGED <<corpusVars, lateVars, bootVars, cache_stats1, replayVars, salVars, bucketer, bk_ref,
                 bk_outs, bk_src, bk_ref_aligns, bk_stats, bk_head, bk_tail, bk_details,
                 bk_srcm, bk_pair>>

InitMatch ==
  /\ pc = "match"
  /\ NoCorpus /\ NoBoot /\ NoReplay /\ NoSalience /\ NoLate
  /\ bucketer \in BucketerPool
  /\ \E r \in Sentences, o \in Sentences : bk_ref = <<r>> /\ bk_outs = <<<<o>>>>
  /\ bk_src = <<>> /\ bk_ref_aligns = <<>>
  /\ NoResults

NextMatch == CalcTrgBucketsAndMatches \/ CalcBucketedMatches

SpecMatch == InitMatch /\ [][NextMatch]_vars

\* ------------------------------------------------------------------------
\* Edit distances of three sentences (WERScorer._edit_distance)
\* ------------------------------------------------------------------------
NoEarly == NoCorpus /\ NoBoot /\ NoReplay /\ NoBucket /\ NoSalience

earlyVars == <<corpusVars, bootVars, cache_stats1, replayVars, bucketVars, salVars>>

\* the sentences handed to _edit_distance: empty, equal, permuted, of
\* different lengths
EditSentences ==
  {<<>>, <<1>>, <<2>>, <<1, 1>>, <<1, 2>>, <<2, 1>>, <<1, 2, 3>>, <<1, 3, 2>>,
   <<3, 1, 2>>, <<2, 2, 3>>}

\* the calls made on the three sentences, in order: (a, b), (b, a), (b, c),
\* (a, c), (a, a)
EditCalls == <<<<ed_a, ed_b>>, <<ed_b, ed_a>>, <<ed_b, ed_c>>, <<ed_a, ed_c>>, <<ed_a, ed_a>>>>

\* scorer._edit_distance(ref, out) on the next pair
EditDistance ==
  /\ pc = "edit"
  /\ Len(ed_dist) < Len(EditCalls)
  /\ LET call == EditCalls[Len(ed_dist) + 1]
     IN ed_dist' = Append(ed_dist, WER_edit_distance(call[1], call[2]))
  /\ UNCHANGED <<pc, earlyVars, tailVars, ed_a, ed_b, ed_c, opVars, alignVars, cacheVars>>

InitEdit ==
  /\ pc = "edit"
  /\ NoEarly /\ NoOp /\ NoAlign /\ NoCache /\ NoTail
  /\ ed_a \in EditSentences /\ ed_b \in EditSentences /\ ed_c \in EditSentences
  /\ ed_dist = <<>>

NextEdit == EditDistance

SpecEdit == InitEdit /\ [][NextEdit]_vars

\* ------------------------------------------------------------------------
\* One sentence pair handed to a scorer
\* ------------------------------------------------------------------------
SentenceScorers == {"bleu", "sacrebleu", "ribes", "length", "exact", "wer"}
CachingScorers == {"bleu", "wer", "ribes"}

\* the sentences of the pair: the empty one, and sentences with repeated words
OpSentences == {<<>>, <<1>>, <<2>>, <<1, 2>>, <<2, 1>>, <<1, 1>>, <<1, 2, 1>>, <<2, 1, 2, 1>>}

\* scorer.score_sentence(ref, out)
ScoreSentence ==
  /\ pc = "sentence"
  /\ op_result' = call_score_sentence(op_scorer, op_ref, op_out)
  /\ pc' = "scored_sentence"
  /\ UNCHANGED <<earlyVars, tailVars, editVars, op_scorer, op_ref, op_out, op_src, alignVars, cacheVars>>

\* scorer.cache_stats([ref], [out])
CacheStats ==
  /\ pc = "sentence"
  /\ op_scorer \in CachingScorers
  /\ op_result' = call_cache_stats(op_scorer, <<op_ref>>, <<op_out>>)
  /\ pc' = "cached_sentence"
  /\ UNCHANGED <<earlyVars, tailVars, editVars, op_scorer, op_ref, op_out, op_src, alignVars, cacheVars>>

InitSentence ==
  /\ pc = "sentence"
  /\ NoEarly /\ NoEdit /\ NoAlign /\ NoCache /\ NoTail
  /\ op_scorer \in SentenceScorers
  /\ op_ref \in OpSentences /\ op_out \in OpSentences
  /\ op_src = <<>>
  /\ op_result = <<>>

NextSentence == ScoreSentence \/ CacheStats

SpecSentence == InitSentence /\ [][NextSentence]_vars

\* ------------------------------------------------------------------------
\* A reference corpus and an output corpus, of any two lengths
\* ------------------------------------------------------------------------
CorpusScorers == {"bleu", "wer", "length", "exact", "ribes", "sentbleu", "gleu"}

CorpusPool == SeqsUpTo({<<>>, <<1>>, <<1, 2>>}, 2)

\* calc_statistics(ref, outs) without src: [x[rsi] for x in outs] raises
\* IndexError at the first reference sentence an output corpus lacks
call_calc_statistics(bk, ref, outs) ==
  IF \E oi \in DOMAIN outs : Len(outs[oi]) < Len(ref) THEN Raised("IndexError")
  ELSE Returned(calc_statistics(bk, ref, outs, <<>>, <<>>))

\* scorer.score_corpus(ref, out, src=src)
ScoreCorpus ==
  /\ pc = "corpus"
  /\ op_result' = call_score_corpus(op_scorer, op_ref, op_out, op_src)
  /\ pc' = "scored_corpus"
  /\ UNCHANGED <<earlyVars, tailVars, editVars, op_scorer, op_ref, op_out, op_src, alignVars, cacheVars>>

\* scorer.cache_stats(ref, out)
CacheStatsCorpus ==
  /\ pc = "corpus"
  /\ op_scorer \in CachingScorers
  /\ op_result' = call_cache_stats(op_scorer, op_ref, op_out)
  /\ pc' = "cached_corpus"
  /\ UNCHANGED <<earlyVars, tailVars, editVars, op_scorer, op_ref, op_out, op_src, alignVars, cacheVars>>

\* bucketer.calc_statistics(ref, [out])
CalcStatisticsCorpus ==
  /\ pc = "corpus"
  /\ op_result' = call_calc_statistics(bucketer, op_ref, <<op_out>>)
  /\ pc' = "statistics"
  /\ UNCHANGED <<earlyVars, tailVars, editVars, op_scorer, op_ref, op_out, op_src, alignVars, cacheVars>>

\* ngram_utils.compare_ngrams(ref, out)
CompareNgrams ==
  /\ pc = "corpus"
  /\ op_result' = compare_ngrams(op_ref, op_out, 1, NumWeights)
  /\ pc' = "ngrams"
  /\ UNCHANGED <<earlyVars, tailVars, editVars, op_scorer, op_ref, op_out, op_src, alignVars, cacheVars>>

InitCorpus ==
  /\ pc = "corpus"
  /\ NoCorpus /\ NoBoot /\ NoReplay /\ NoSalience
  /\ bucketer \in BucketerPool
  /\ bk_ref = <<>> /\ bk_outs = <<>> /\ bk_src = <<>> /\ bk_ref_aligns = <<>>
  /\ NoResults
  /\ NoEdit /\ NoAlign /\ NoCache /\ NoTail
  /\ op_scorer \in CorpusScorers
  /\ op_ref \in CorpusPool /\ op_out \in CorpusPool
  /\ op_src \in IF op_scorer = "gleu" THEN {<<>>, <<<<>>>>, <<op_ref>>} ELSE {<<>>}
  /\ op_result = <<>>

NextCorpus == ScoreCorpus \/ CacheStatsCorpus \/ CalcStatisticsCorpus \/ CompareNgrams

SpecCorpus == InitCorpus /\ [][NextCorpus]_vars

\* ------------------------------------------------------------------------
\* Source-side bucketing with alignments of any indices
\* ------------------------------------------------------------------------
\* the indices corpus_utils.iterate_alignments can read from a line "i-j"
AlignIndices == (-3)..2

\* the alignments of one sentence: none, or one pair
AlignPool == {<<>>} \cup {<<<<i, j>>>> : i \in AlignIndices, j \in AlignIndices}

\* bucketer.calc_statistics(ref, outs, src=src, ref_aligns=ref_aligns)
AlignedStatistics ==
  /\ pc = "align"
  /\ al_result' = aligned_calc_statistics(bucketer, al_src, al_ref, al_aligns[1], al_outs)
  /\ pc' = "aligned_statistics"
  /\ UNCHANGED <<earlyVars, tailVars, editVars, opVars, al_src, al_ref, al_outs, al_aligns, cacheVars>>

\* bucketer.calc_source_bucketed_matches(src, ref, out, ref_aligns, out_aligns)
AlignedBucketedMatches ==
  /\ pc = "align"
  /\ al_result' = aligned_bucketed_matches(bucketer, al_src, al_ref, al_outs[1],
                                           al_aligns[1], al_aligns[2])
  /\ pc' = "aligned_matches"
  /\ UNCHANGED <<earlyVars, tailVars, editVars, opVars, al_src, al_ref, al_outs, al_aligns, cacheVars>>

InitAlign ==
  /\ pc = "align"
  /\ NoCorpus /\ NoBoot /\ NoReplay /\ NoSalience
  /\ bucketer \in BucketerPool
  /\ bk_ref = <<>> /\ bk_outs = <<>> /\ bk_src = <<>> /\ bk_ref_aligns = <<>>
  /\ NoResults
  /\ NoEdit /\ NoOp /\ NoCache /\ NoTail
  /\ al_src \in {<<1>>, <<1, 2>>}
  /\ al_ref \in {<<1>>, <<2, 1>>}
  /\ al_outs \in {<<<<1>>>>, <<<<1, 2>>>>}
  /\ al_aligns \in AlignPool \X AlignPool
  /\ al_result = <<>>

NextAlign == AlignedStatistics \/ AlignedBucketedMatches

SpecAlign == InitAlign /\ [][NextAlign]_vars

\* ------------------------------------------------------------------------
\* Reports built one system at a time and put together from the caches
\* ------------------------------------------------------------------------
\* the cache_key_list of generate_sentence_bucketed_report, of
\* generate_sentence_examples and of generate_score_report
KeyLists == {<<"stats">>, <<"scores", "strs">>, <<"scores", "strs", "sign_stats">>}

\* per system and key, the value the report computes for it
ValueTables(key_list) ==
  UNION {[1..n -> [DOMAIN key_list -> {0, 1}]] : n \in 1..2}

\* the direct computation over the systems, per key in system order
\* (zip(*[scorer.score_corpus(ref, out, src=src) for out in outs]))
direct_values(key_list, values) ==
  [i \in DOMAIN key_list |-> [c \in DOMAIN values |-> values[c][i]]]

\* the report without caches
DirectComputation ==
  /\ pc = "cache"
  /\ cache_direct = <<>>
  /\ cache_direct' = direct_values(cache_key_list, cache_values)
  /\ UNCHANGED <<pc, earlyVars, tailVars, editVars, opVars, alignVars, cache_key_list, cache_num_out,
                 cache_values, cache_dicts, cache_call, cache_ret, cache_extracted>>

\* a report called with to_cache=True on the next num systems: its last step
\* is return_cache_dict(cache_key_list, value_list), and the caller appends
\* the dictionary to its list
ReturnCacheDict ==
  /\ pc = "cache"
  /\ \E num \in 0..2 :
       LET done == IF cache_dicts = <<>> THEN 0 ELSE Len(cache_dicts[1])
           value_list == [i \in DOMAIN cache_key_list |->
                            [c \in 1..num |-> cache_values[done + c][i]]]
           r == return_cache_dict(cache_key_list, value_list)
       IN /\ done + num <= Len(cache_values)
          /\ done < Len(cache_values)
          /\ cache_call' = value_list
          /\ cache_ret' = r
          /\ IF r.raised # "none" THEN pc' = "cache_raised" /\ UNCHANGED cache_dicts
             ELSE /\ pc' = pc
                  /\ cache_dicts' = IF cache_dicts = <<>> THEN <<<<r.value>>>>
                                    ELSE <<Append(cache_dicts[1], r.value)>>
  /\ UNCHANGED <<earlyVars, tailVars, editVars, opVars, alignVars, cache_key_list, cache_num_out,
                 cache_values, cache_direct, cache_extracted>>

\* a report called with cache_dicts: extract_cache_dicts(cache_dicts,
\* cache_key_list, len(outs))
ExtractCacheDicts ==
  /\ pc = "cache"
  /\ cache_extracted' = extract_cache_dicts(cache_dicts, cache_key_list, cache_num_out)
  /\ pc' = "extracted"
  /\ UNCHANGED <<earlyVars, tailVars, editVars, opVars, alignVars, cache_key_list, cache_num_out,
                 cache_values, cache_dicts, cache_call, cache_ret, cache_direct>>

InitCache ==
  /\ pc = "cache"
  /\ NoEarly /\ NoEdit /\ NoOp /\ NoAlign /\ NoTail
  /\ cache_key_list \in KeyLists
  /\ cache_values \in ValueTables(cache_key_list)
  /\ cache_num_out \in 1..3
  /\ cache_dicts = <<>> /\ cache_call = <<>> /\ cache_ret = <<>>
  /\ cache_direct = <<>> /\ cache_extracted = <<>>

NextCache == DirectComputation \/ ReturnCacheDict \/ ExtractCacheDicts

SpecCache == InitCache /\ [][NextCache]_vars

\* ------------------------------------------------------------------------
\* GLEU from cached statistics (tests/test_scorers.py, TestGleuScorer)
\* ------------------------------------------------------------------------
\* sentence triples of which some share every n-gram order and some none
GleuSentences ==
  {[ref |-> r, out |-> o, src |-> s] :
     r \in {<<1>>, <<1, 2, 3, 4>>},
     o \in {<<>>, <<1>>, <<1, 2, 3, 4>>, <<1, 2, 3, 5>>},
     s \in {<<1>>, <<1, 2, 3, 4>>}}

\* sent_ids: any ids of the cache, repeated or not, none included
GleuIdLists(n) == SeqsUpTo(1..n, 2)

\* cached_stats = scorer.cache_stats(ref, out, src)
GleuCacheStats ==
  /\ pc = "gleu"
  /\ cache_stats1' = Gleu_cache_stats(op_ref, op_out, op_src[1])
  /\ pc' = "gleu_cached"
  /\ UNCHANGED <<corpusVars, bootVars, replayVars, bucketVars, salVars, lateVars>>

\* scorer.score_cached_corpus(sent_ids, cached_stats)
GleuScoreCachedCorpus ==
  /\ pc \in {"gleu_cached", "gleu_scored"}
  /\ \E S \in GleuIdLists(Len(cache_stats1)) :
       /\ sent_ids' = S
       /\ cached_score' = Gleu_score_cached_corpus(S, cache_stats1)
  /\ pc' = "gleu_scored"
  /\ UNCHANGED <<corpusVars, bootVars, cache_stats1, direct_score, bucketVars, salVars, lateVars>>

InitGleu ==
  /\ pc = "gleu"
  /\ NoEarly /\ NoEdit /\ NoAlign /\ NoCache /\ NoTail
  /\ op_scorer = "gleu"
  /\ \E c \in SeqsUpTo(GleuSentences, 2) :
       /\ op_ref = [i \in DOMAIN c |-> c[i].ref]
       /\ op_out = [i \in DOMAIN c |-> c[i].out]
       /\ op_src = <<[i \in DOMAIN c |-> c[i].src]>>
  /\ op_result = <<>>

NextGleu == GleuCacheStats \/ GleuScoreCachedCorpus

SpecGleu == InitGleu /\ [][NextGleu]_vars

\* ------------------------------------------------------------------------
\* One labelled sentence pair under the target-side matcher
\* ------------------------------------------------------------------------
\* LabelWordBucketer(label_set=...)
LabelBucketerPool == {[label_set |-> <<1, 2>>], [label_set |-> <<2>>]}

\* a sentence of at most two tokens with one of three labels for each
LabelledSentences ==
  UNION {{[words |-> w, labels |-> l] : w \in [1..n -> {1, 2}], l \in [1..n -> {1, 2, 3}]} :
           n \in 0..2}

\* bucketer._calc_trg_buckets_and_matches(ref_sent, ref_label, [out_sent], [out_label])
CalcTrgBucketsAndMatchesLabels ==
  /\ pc = "label"
  /\ bk_pair' = calc_trg_buckets_and_matches_labels(bucketer, bk_ref[1], bk_ref_labels,
                                                    bk_outs[1], <<bk_out_labels>>)
  /\ pc' = "labelled"
  /\ UNCHANGED <<corpusVars, bootVars, cache_stats1, replayVars, salVars, bucketer, bk_ref,
                 bk_outs, bk_src, bk_ref_aligns, bk_stats, bk_head, bk_tail, bk_details,
                 bk_srcm, bk_legacy, lateVars>>

InitLabel ==
  /\ pc = "label"
  /\ NoCorpus /\ NoBoot /\ NoReplay /\ NoSalience
  /\ NoEdit /\ NoOp /\ NoAlign /\ NoCache /\ NoCutoff /\ NoLoop
  /\ bucketer \in LabelBucketerPool
  /\ \E r \in LabelledSentences, o \in LabelledSentences :
       /\ bk_ref = <<r.words>> /\ bk_ref_labels = r.labels
       /\ bk_outs = <<<<o.words>>>> /\ bk_out_labels = o.labels
  /\ bk_src = <<>> /\ bk_ref_aligns = <<>>
  /\ NoResults

NextLabel == CalcTrgBucketsAndMatchesLabels

SpecLabel == InitLabel /\ [][NextLabel]_vars

\* ------------------------------------------------------------------------
\* calc_source_bucketed_matches on one sentence, edge by edge
\* ------------------------------------------------------------------------
\* the alignments of one sentence: at most two pairs of indices 0 and 1
EdgePool == SeqsUpTo({<<i, j>> : i \in 0..1, j \in 0..1}, 2)

\* the next pair of out_align: src_sent[src_index] or out_sent[trg_index]
\* raises IndexError, or the pair is tallied
OutEdge ==
  /\ pc = "srcloop"
  /\ sm_k < Len(al_aligns[2])
  /\ LET edge == al_aligns[2][sm_k + 1]
     IN IF PyIndex(Len(al_src), edge[1]) = 0 \/ PyIndex(Len(al_outs[1]), edge[2]) = 0
        THEN /\ pc' = "loop_raised"
             /\ al_result' = Raised("IndexError")
             /\ UNCHANGED <<sm_k, sm_ref_cnt, sm_matches>>
        ELSE LET step == out_edge_step(bucketer, al_src, al_outs[1], edge, sm_ref_cnt, sm_matches)
             IN /\ sm_ref_cnt' = step.ref_cnt
                /\ sm_matches' = step.matches
                /\ sm_k' = sm_k + 1
                /\ UNCHANGED <<pc, al_result>>
  /\ UNCHANGED <<earlyVars, editVars, opVars, al_src, al_ref, al_outs, al_aligns, cacheVars,
                 labelVars, cutoffVars>>

\* the next pair of ref_align, after the last of out_align
RefEdge ==
  /\ pc = "srcloop"
  /\ sm_k >= Len(al_aligns[2])
  /\ sm_k < Len(al_aligns[2]) + Len(al_aligns[1])
  /\ LET edge == al_aligns[1][sm_k - Len(al_aligns[2]) + 1]
     IN IF PyIndex(Len(al_src), edge[1]) = 0
        THEN /\ pc' = "loop_raised"
             /\ al_result' = Raised("IndexError")
             /\ UNCHANGED <<sm_k, sm_matches>>
        ELSE /\ sm_matches' = ref_edge_step(bucketer, al_src, edge, sm_matches)
             /\ sm_k' = sm_k + 1
             /\ UNCHANGED <<pc, al_result>>
  /\ UNCHANGED <<earlyVars, editVars, opVars, al_src, al_ref, al_outs, al_aligns, cacheVars,
                 labelVars, cutoffVars, sm_ref_cnt>>

InitSrcLoop ==
  /\ pc = "srcloop"
  /\ NoCorpus /\ NoBoot /\ NoReplay /\ NoSalience
  /\ bucketer \in BucketerPool
  /\ bk_ref = <<>> /\ bk_outs = <<>> /\ bk_src = <<>> /\ bk_ref_aligns = <<>>
  /\ NoResults
  /\ NoEdit /\ NoOp /\ NoCache /\ NoLabel /\ NoCutoff
  /\ al_src \in {<<1>>, <<1, 2>>}
  /\ al_ref \in {<<1>>, <<1, 1>>, <<2, 1>>}
  /\ al_outs \in {<<<<1>>>>, <<<<1, 1>>>>, <<<<1, 2>>>>}
  /\ al_aligns \in EdgePool \X EdgePool
  /\ al_result = <<>>
  /\ sm_k = 0
  /\ sm_ref_cnt = ref_cnt_of(al_ref, al_outs[1])
  /\ sm_matches = [b \in Buckets(bucketer) |-> <<0, 0, 0>>]

NextSrcLoop == OutEdge \/ RefEdge

SpecSrcLoop == InitSrcLoop /\ [][NextSrcLoop]_vars

\* ------------------------------------------------------------------------
\* A value put into its bucket (Bucketer.cutoff_into_bucket)
\* ------------------------------------------------------------------------
\* the values of a cutoff and of a frequency
CutoffValues == 0..3

\* bucket_cutoffs: any list of one to three cutoffs, increasing or not
CutoffLists == UNION {[1..m -> CutoffValues] : m \in 1..3}

\* bucketer.cutoff_into_bucket(value)
CutoffIntoBucket ==
  /\ pc = "cutoff"
  /\ co_bucket' = cutoff_into_bucket(bucketer.bucket_cutoffs, co_value)
  /\ pc' = "bucketed"
  /\ UNCHANGED <<earlyVars, editVars, opVars, alignVars, cacheVars, labelVars, loopVars,
                 co_value>>

\* a FreqWordBucketer that knows word 1, with the frequency co_value
InitCutoff ==
  /\ pc = "cutoff"
  /\ NoCorpus /\ NoBoot /\ NoReplay /\ NoSalience
  /\ co_value \in CutoffValues
  /\ \E c \in CutoffLists : bucketer = [freq_counts |-> (1 :> co_value), bucket_cutoffs |-> c]
  /\ bk_ref = <<>> /\ bk_outs = <<>> /\ bk_src = <<>> /\ bk_ref_aligns = <<>>
  /\ NoResults
  /\ NoEdit /\ NoOp /\ NoAlign /\ NoCache /\ NoLabel /\ NoLoop
  /\ co_bucket = 0

NextCutoff == CutoffIntoBucket

SpecCutoff == InitCutoff /\ [][NextCutoff]_vars

\* ------------------------------------------------------------------------
\* The word alignment of one sentence pair (align_utils.ngram_context_align)
\* ------------------------------------------------------------------------
\* sentences with repeated words, which the n-gram context has to tell apart
ContextSentences == SeqsUpTo({1, 2}, 3)

\* align_utils.ngram_context_align(ref, out)
NgramContextAlign ==
  /\ pc = "context"
  /\ op_result' = ngram_context_align(op_ref, op_out)
  /\ pc' = "context_aligned"
  /\ UNCHANGED <<earlyVars, tailVars, editVars, op_scorer, op_ref, op_out, op_src, alignVars,
                 cacheVars>>

InitContext ==
  /\ pc = "context"
  /\ NoEarly /\ NoEdit /\ NoAlign /\ NoCache /\ NoTail
  /\ op_scorer = "ribes"
  /\ op_ref \in ContextSentences /\ op_out \in ContextSentences
  /\ op_src = <<>>
  /\ op_result = <<>>

NextContext == NgramContextAlign

SpecContext == InitContext /\ [][NextContext]_vars

\* ------------------------------------------------------------------------
\* The n-gram tallies of two corpora of one length (ngram_utils.compare_ngrams)
\* ------------------------------------------------------------------------
\* sentences with repeated words and repeated bigrams
NgramSentences == {<<>>, <<1>>, <<1, 1>>, <<1, 2>>, <<1, 1, 1>>, <<2, 1, 2>>}

\* the (min_length, max_length) pairs of the call
NgramOrders == {<<a, b>> : a \in 1..2, b \in 1..3}

\* ngram_utils.compare_ngrams(ref, out, min_length=a, max_length=b)
CompareNgramsOrders ==
  /\ pc = "orders"
  /\ \E o \in NgramOrders :
       op_result' = [min_length |-> o[1], max_length |-> o[2],
                     ret |-> compare_ngrams(op_ref, op_out, o[1], o[2])]
  /\ pc' = "compared"
  /\ UNCHANGED <<earlyVars, tailVars, editVars, op_scorer, op_ref, op_out, op_src, alignVars,
                 cacheVars>>

InitNgrams ==
  /\ pc = "orders"
  /\ NoEarly /\ NoEdit /\ NoAlign /\ NoCache /\ NoTail
  /\ op_scorer = "none"
  /\ \E n \in 0..2 : op_ref \in [1..n -> NgramSentences] /\ op_out \in [1..n -> NgramSentences]
  /\ op_src = <<>>
  /\ op_result = <<>>

NextNgrams == CompareNgramsOrders

SpecNgrams == InitNgrams /\ [][NextNgrams]_vars

\* ------------------------------------------------------------------------
\* Claims
\* ------------------------------------------------------------------------
AllIds == [i \in 1..Len(gold) |-> i]

\* C1: for every scorer with a cache/replay pair, score_cached_corpus over all
\* sentence ids of cache_stats(ref, out) equals score_corpus(ref, out), the
\* empty corpus and corpora with empty sentences included.
C1_ReplayAllEqualsCorpus ==
  (pc = "scored" /\ sent_ids = AllIds) => ScoreEq(scorer, cached_score, direct_score)

\* C2: for every list of distinct sentence ids, in any order and possibly empty,
\* score_cached_corpus over it equals score_corpus on the selected sub-corpus.
C2_ReplaySubsetEqualsCorpus ==
  pc = "scored" => ScoreEq(scorer, cached_score, direct_score)

\* the floats within 2^-50 of 1
DNearOne(x) ==
  /\ DLe([m |-> <<16777208, 16777215, 31>>, e |-> -53], x)
  /\ DLe(x, [m |-> <<4, 0, 16>>, e |-> -52])

\* C3: after every completed round r the three tallies sum to r, and the three
\* returned win ratios sum to exactly 1.
C3_WinsSumToOne ==
  /\ pc = "rounds" => wins[1] + wins[2] + wins[3] = Len(sys1_scores)
  /\ pc = "done" => DAdd(DAdd(ret.wins[1], ret.wins[2]), ret.wins[3]) = DOne

\* C3, as amended: after every completed round r the three tallies sum to r,
\* and the three returned win ratios sum to 1 up to the rounding of the float
\* operations, that is within 2^-50 of 1.
C3_WinsSumToOneRounded ==
  /\ pc = "rounds" => wins[1] + wins[2] + wins[3] = Len(sys1_scores)
  /\ pc = "done" =>
       /\ wins[1] + wins[2] + wins[3] = num_samples
       /\ DNearOne(DAdd(DAdd(ret.wins[1], ret.wins[2]), ret.wins[3]))

\* six rounds ended with one left win, four right wins and one tie, and the
\* three ratios sum to the float just below 1
C3_Witness ==
  /\ pc = "done" /\ num_samples = 6
  /\ wins = <<1, 4, 1>>
  /\ DAdd(DAdd(ret.wins[1], ret.wins[2]), ret.wins[3])
       = [m |-> <<16777215, 16777215, 31>>, e |-> -53]

IsRound == pc = "rounds" /\ pc' = "rounds" /\ Len(sys1_scores') = Len(sys1_scores) + 1

Bump(b) == IF b THEN 1 ELSE 0

\* C4: every round increments exactly one tally by one: left wins iff
\* left_score > right_score, right wins iff left_score < right_score, and tie
\* iff the two scores are equal.
C4_RoundTalliesOnce ==
  [][IsRound =>
       LET l == sys1_scores'[Len(sys1_scores')]
           r == sys2_scores'[Len(sys2_scores')]
       IN /\ wins'[1] = wins[1] + Bump(FGt(l, r))
          /\ wins'[2] = wins[2] + Bump(FLt(l, r))
          /\ wins'[3] = wins[3] + Bump(FEq(l, r))]_vars

\* ceil(n * sample_ratio)
CeilRatio(n) == (n * sample_ratio[1] + sample_ratio[2] - 1) \div sample_ratio[2]

\* C5: the sample of every round consists of exactly ceil(n * sample_ratio)
\* sentence ids drawn from the n ids.
C5_SampleSizeIsCeil ==
  (pc = "rounds" /\ Len(sys1_scores) > 0) =>
     /\ Len(reduced_ids) = CeilRatio(Len(ids))
     /\ \A k \in DOMAIN reduced_ids : reduced_ids[k] \in 1..Len(ids)

\* the tuple (matched, ref_total, out_total, recall, precision, f1) of a bucket
TupleOk(t) ==
  IF t[1] = 0 THEN t[4] = Flt(0) /\ t[5] = Flt(0) /\ t[6] = Flt(0)
  ELSE /\ FEq(t[4], FDiv(Flt(t[1]), Flt(t[2])))
       /\ FEq(t[5], FDiv(Flt(t[1]), Flt(t[3])))
       /\ FEq(t[6], FDiv(FMul(FMul(Flt(2), t[5]), t[4]), FAdd(t[5], t[4])))

TableOk(statistics) ==
  \A oi \in DOMAIN statistics : \A b \in DOMAIN statistics[oi] : TupleOk(statistics[oi][b])

\* C6: every per-bucket tuple of calc_statistics, calc_bucket_details and
\* calc_source_bucketed_matches has recall = precision = f1 = 0 if matched is
\* 0, and otherwise recall = matched/ref_total, precision = matched/out_total
\* and f1 = 2*precision*recall/(precision+recall).
C6_TupleFormula ==
  /\ pc \in {"stats", "split", "details"} => TableOk(bk_stats.statistics)
  /\ pc = "split" => TableOk(bk_head.statistics) /\ TableOk(bk_tail.statistics)
  /\ pc = "details" => TableOk(bk_details.statistics)
  /\ pc = "srcm" => \A k \in DOMAIN bk_srcm.yielded : TupleOk(bk_srcm.yielded[k])

\* calc_statistics returned a bucket with one match of two reference words
\* and one output word: recall 1/2, precision 1, f1 2/3
C6_Witness ==
  /\ pc = "stats"
  /\ \E b \in DOMAIN bk_stats.statistics[1] :
       bk_stats.statistics[1][b] = <<1, 2, 1, <<1, 2>>, <<1, 1>>, <<2, 3>>>>

\* the counts (matched, ref_total, out_total) of a tuple
Counts(t) == <<t[1], t[2], t[3]>>

\* C7: for any split point 0 <= k <= n, the per-bucket counts (matched,
\* ref_total, out_total) of calc_statistics on the sentences [0..k) plus those
\* on the sentences [k..n) equal the counts of calc_statistics on all n
\* sentences, on the target side and on the source side.
C7_TalliesAdditive ==
  pc = "split" =>
    \A oi \in DOMAIN bk_stats.statistics : \A b \in DOMAIN bk_stats.statistics[oi] :
      \A j \in 1..3 :
        bk_head.statistics[oi][b][j] + bk_tail.statistics[oi][b][j] = bk_stats.statistics[oi][b][j]

\* a source-side corpus of two sentences split in the middle, both halves
\* with a match in the same bucket
C7_Witness ==
  /\ pc = "split"
  /\ bk_src # <<>>
  /\ Len(bk_head.my_ref_total_list) = 1 /\ Len(bk_tail.my_ref_total_list) = 1
  /\ \E b \in DOMAIN bk_stats.statistics[1] :
       /\ bk_head.statistics[1][b][1] > 0
       /\ bk_tail.statistics[1][b][1] > 0

\* the words of the two sentences that fall into bucket b
WordsOf(b) ==
  {w \in Range(bk_ref[1]) \cup Range(bk_outs[1][1]) : calc_bucket(bucketer, w, "None") = b}

MinCount(w) == Min(Counter(bk_ref[1], w), Counter(bk_outs[1][1], w))

\* C8: for a reference and an output sentence, the matched count of a bucket
\* is the sum over the words w of the bucket of min(count of w in ref, count
\* of w in out), ref_total is the number of reference tokens of the bucket
\* and out_total the number of output tokens of the bucket; the legacy
\* calc_bucketed_matches gives the same three counts.
C8_MatchIsMinCount ==
  /\ pc \in {"trg", "both"} =>
       \A b \in Buckets(bucketer) :
         /\ bk_pair.my_out_matches[1][b] = SumOver(WordsOf(b), [w \in WordsOf(b) |-> MinCount(w)])
         /\ bk_pair.my_ref_total[b] =
              Cardinality({i \in DOMAIN bk_ref[1] : bk_ref[1][i] \in WordsOf(b)})
         /\ bk_pair.my_out_totals[1][b] =
              Cardinality({i \in DOMAIN bk_outs[1][1] : bk_outs[1][1][i] \in WordsOf(b)})
  /\ pc = "both" =>
       \A b \in Buckets(bucketer) :
         bk_legacy[b] = <<bk_pair.my_out_matches[1][b], bk_pair.my_ref_total[b],
                          bk_pair.my_out_totals[1][b]>>

\* the reference "1 2" against the output "2 2": one of the two output
\* tokens matches, in either tally
C8_Witness ==
  /\ pc = "both"
  /\ bk_ref = <<<<1, 2>>>> /\ bk_outs = <<<<<<2, 2>>>>>>
  /\ \E b \in Buckets(bucketer) :
       /\ bk_pair.my_out_matches[1][b] = 1 /\ bk_pair.my_out_totals[1][b] = 2
       /\ bk_legacy[b] = <<1, 2, 2>>

\* C9: for every key of both score dictionaries,
\* extract_salient_features(A, B, alpha)[k] + extract_salient_features(B, A, alpha)[k] == 1.
C9_SalienceSumsToOne ==
  pc = "both" =>
    \A k \in DOMAIN scores_lr \cap DOMAIN scores_rl : DAdd(scores_lr[k], scores_rl[k]) = DOne

\* C9, as amended: the two scores of a key sum to 1 up to the rounding of the
\* float operations, that is within 2^-50 of 1.
C9_SalienceSumsToOneRounded ==
  pc = "both" =>
    \A k \in DOMAIN scores_lr \cap DOMAIN scores_rl :
      DNearOne(DAdd(scores_lr[k], scores_rl[k]))

\* both directions scored a key that both dictionaries counted, and the sum
\* of its two scores is the float just below 1
C9_Witness ==
  /\ pc = "both"
  /\ \E k \in DOMAIN scores_lr \cap DOMAIN scores_rl :
       /\ matches_left[k] = 1 /\ matches_right[k] = 2
       /\ DAdd(scores_lr[k], scores_rl[k]) = [m |-> <<16777215, 16777215, 31>>, e |-> -53]

Count0(d, k) == IF k \in DOMAIN d THEN d[k] ELSE 0

Scored(sc, A, B) ==
  /\ DOMAIN sc = DOMAIN A \cup DOMAIN B
  /\ \A k \in DOMAIN sc :
       sc[k] = DDiv(DAdd(DInt(Count0(A, k)), alpha),
                    DAdd(DInt(Count0(A, k) + Count0(B, k)), DTwice(alpha)))

\* C10: extract_salient_features(A, B, alpha) returns a score for every key of
\* the union of the keys of A and B, equal to
\* (A[k] + alpha) / (A[k] + B[k] + 2*alpha) with an absent count taken as 0.
C10_ScoreForEveryKey ==
  [][/\ pc' \in {"left_right", "both"} /\ pc \in {"salience", "right_left"}
       => Scored(scores_lr', matches_left, matches_right)
     /\ pc' \in {"right_left", "both"} /\ pc \in {"salience", "left_right"}
       => Scored(scores_rl', matches_right, matches_left)]_vars

\* a key that only the left dictionary counted (twice) got the score 0.75
\* with alpha = 1, and the lookup left a zero in the right dictionary
C10_Witness ==
  /\ pc = "left_right"
  /\ alpha = DOne
  /\ \E k \in DOMAIN scores_lr :
       /\ matches_left[k] = 2 /\ matches_right[k] = 0
       /\ scores_lr[k] = [m |-> <<0, 0, 24>>, e |-> -53]

\* the order-preserving partial matchings of the positions of a and of b: the
\* pairs kept (or substituted) by a sequence of edits
Matchings(a, b) ==
  {M \in SUBSET ((DOMAIN a) \X (DOMAIN b)) :
     \A p, q \in M : p # q => (p[1] < q[1] /\ p[2] < q[2]) \/ (q[1] < p[1] /\ q[2] < p[2])}

\* the number of edits of a matching: its substitutions, the deletions of the
\* unmatched words of a and the insertions of the unmatched words of b
EditCost(a, b, M) ==
  Cardinality({p \in M : a[p[1]] # b[p[2]]}) + (Len(a) - Cardinality(M))
    + (Len(b) - Cardinality(M))

Levenshtein(a, b) ==
  LET costs == {EditCost(a, b, M) : M \in Matchings(a, b)}
  IN CHOOSE c \in costs : \A d \in costs : c <= d

\* C11: _edit_distance(ref, out) is the Levenshtein distance of the two token
\* sequences, the least number of unit-cost substitutions, insertions and
\* deletions that turn one into the other, empty sequences included.
C11_EditDistanceIsLevenshtein ==
  (pc = "edit" /\ Len(ed_dist) >= 1) => ed_dist[1] = Levenshtein(ed_a, ed_b)

\* ref a b c against out a c b gives 2
C11_Witness ==
  /\ pc = "edit" /\ Len(ed_dist) >= 1
  /\ ed_a = <<1, 2, 3>> /\ ed_b = <<1, 3, 2>> /\ ed_dist[1] = 2

\* C12: for every sentence s, the empty one included, _edit_distance(s, s) is 0.
C12_EditDistanceSelfZero ==
  (pc = "edit" /\ Len(ed_dist) = 5) => ed_dist[5] = 0

\* a sentence of three words was compared with itself
C12_Witness ==
  /\ pc = "edit" /\ Len(ed_dist) = 5 /\ ed_a = <<2, 2, 3>> /\ ed_dist[5] = 0

\* C13: with the default unit penalties the edit distance is symmetric,
\* _edit_distance(a, b) = _edit_distance(b, a).
C13_EditDistanceSymmetric ==
  (pc = "edit" /\ Len(ed_dist) >= 2) => ed_dist[1] = ed_dist[2]

\* both directions of a pair of sentences of different lengths were computed
C13_Witness ==
  /\ pc = "edit" /\ Len(ed_dist) >= 2
  /\ ed_a = <<1, 2>> /\ ed_b = <<1>> /\ ed_dist[1] = 1 /\ ed_dist[2] = 1

\* C14: the unit-cost edit distance satisfies the triangle inequality,
\* _edit_distance(a, c) <= _edit_distance(a, b) + _edit_distance(b, c).
C14_EditDistanceTriangle ==
  (pc = "edit" /\ Len(ed_dist) >= 4) => ed_dist[4] <= ed_dist[1] + ed_dist[3]

\* three different sentences where the detour over b costs more than the
\* direct distance
C14_Witness ==
  /\ pc = "edit" /\ Len(ed_dist) >= 4
  /\ ed_a = <<1, 2, 3>> /\ ed_b = <<>> /\ ed_c = <<1, 3, 2>>
  /\ ed_dist[4] = 2 /\ ed_dist[1] = 3 /\ ed_dist[3] = 3

\* C15: score_sentence of a corpus-level-only metric (BleuScorer,
\* SacreBleuScorer) raises NotImplementedError for every sentence pair and
\* never returns a score.
C15_CorpusOnlyRaises ==
  (pc = "scored_sentence" /\ op_scorer \in {"bleu", "sacrebleu"})
    => op_result.raised = "NotImplementedError"

\* BleuScorer.score_sentence was called on two equal non-empty sentences
C15_Witness ==
  /\ pc = "scored_sentence" /\ op_scorer = "bleu"
  /\ op_ref = <<1, 2>> /\ op_out = <<1, 2>>
  /\ op_result.raised = "NotImplementedError"

\* C17: for every combination of empty and non-empty reference and output
\* sentence, RibesScorer.score_sentence, WERScorer.cache_stats,
\* BleuScorer.cache_stats and LengthScorer.score_sentence complete without
\* raising, and a score whose denominator would be zero is 0.
C17_EmptySentencesLegal ==
  /\ (pc = "scored_sentence" /\ op_scorer = "ribes") =>
       /\ op_result.raised = "none"
       /\ Len(op_out) = 0 => op_result.value.zero
  /\ (pc = "scored_sentence" /\ op_scorer = "length") =>
       /\ op_result.raised = "none"
       /\ Len(op_ref) = 0 => op_result.value = Flt(0)
  /\ (pc = "cached_sentence" /\ op_scorer \in {"wer", "bleu"}) =>
       op_result.raised = "none"

\* a score of value zero, in the form scorer sc keeps it
ZeroScore(sc, v) == IF sc \in {"bleu", "gleu"} THEN v = BleuZero ELSE v = Flt(0)

\* C16: score_corpus on the empty corpus (ref = out = [], and src = [] for the
\* scorer that requires src) returns a zero-valued score without raising, for
\* bleu, sentbleu, ribes, wer, length, exact and gleu.
C16_EmptyCorpusScoresZero ==
  (/\ pc = "scored_corpus"
   /\ op_ref = <<>> /\ op_out = <<>>
   /\ op_scorer = "gleu" => op_src = <<<<>>>>)
    => op_result.raised = "none" /\ ZeroScore(op_scorer, op_result.value)

\* C18: when the output corpus has another number of sentences than the
\* reference corpus, score_corpus, cache_stats, calc_statistics and
\* compare_ngrams end in an error and return no result.
C18_LengthMismatchFails ==
  (/\ pc \in {"scored_corpus", "cached_corpus", "statistics", "ngrams"}
   /\ Len(op_ref) # Len(op_out))
    => op_result.raised # "none"

\* index i is outside [0, n)
OutOfRange(n, i) == i < 0 \/ i >= n

\* C19: in source-side bucketing an alignment pair whose source index is
\* outside [0, len(source sentence)) or whose target index is outside
\* [0, len(target sentence)), negative indices included, leads to an error.
C19_AlignmentIndicesChecked ==
  LET bad(aligns, trg_len) ==
        \E k \in DOMAIN aligns : \/ OutOfRange(Len(al_src), aligns[k][1])
                                 \/ OutOfRange(trg_len, aligns[k][2])
  IN /\ (pc = "aligned_statistics" /\ bad(al_aligns[1], Len(al_ref)))
          => al_result.raised # "none"
     /\ (pc = "aligned_matches"
           /\ (bad(al_aligns[1], Len(al_ref)) \/ bad(al_aligns[2], Len(al_outs[1]))))
          => al_result.raised # "none"

\* C20: with one cache dictionary per system, each built by return_cache_dict
\* from that system alone, extract_cache_dicts recovers per key the values of
\* the direct computation in system order; it raises ValueError when the number
\* of dictionaries differs from the number of systems, and return_cache_dict
\* raises ValueError exactly when a value list holds another number of systems
\* than one.
C20_CacheRoundTrip ==
  /\ (/\ pc = "extracted" /\ cache_direct # <<>> /\ cache_dicts # <<>>
      /\ Len(cache_dicts[1]) = Len(cache_values) /\ cache_num_out = Len(cache_values))
       => /\ cache_extracted.raised = "none"
          /\ cache_extracted.value = IF Len(cache_key_list) = 1 THEN cache_direct[1]
                                     ELSE cache_direct
  /\ (pc = "extracted" /\ cache_dicts # <<>> /\ Len(cache_dicts[1]) # cache_num_out)
       => cache_extracted.raised = "ValueError"
  /\ cache_call # <<>>
       => (cache_ret.raised = "ValueError"
             <=> \E i \in DOMAIN cache_call : Len(cache_call[i]) # 1)

\* two systems that differ, cached apart under three keys and recovered
C20_Witness ==
  /\ pc = "extracted" /\ cache_direct # <<>> /\ cache_dicts # <<>>
  /\ Len(cache_key_list) = 3 /\ Len(cache_values) = 2 /\ cache_num_out = 2
  /\ Len(cache_dicts[1]) = 2
  /\ cache_values[1] # cache_values[2]
  /\ cache_values[1][1] # cache_values[1][2]
  /\ cache_extracted.raised = "none"
  /\ cache_extracted.value = cache_direct

\* the numerator (k = 1) or denominator (k = 2) of order n summed over sent_ids
GleuSum(n, k) ==
  SumSeq([i \in DOMAIN sent_ids |-> cache_stats1[sent_ids[i]].prec[n][k]])

\* C21: GleuScorer.score_cached_corpus returns 0, and does not raise, whenever
\* for at least one n-gram order the numerator or the denominator summed over
\* the selected sentence ids is 0.
C21_GleuZeroWhenAnySumZero ==
  (/\ pc = "gleu_scored"
   /\ \E n \in 1..NumWeights : GleuSum(n, 1) = 0 \/ GleuSum(n, 2) = 0)
    => cached_score = Returned(BleuZero)

\* C22: in target-side matching a matched output token is tallied in out_total
\* and in matched under the bucket of the reference token it is matched to, an
\* unmatched output token in out_total under the bucket of its own label, and
\* every reference token in ref_total under the bucket of its own label.
C22_MatchedTokenTakesReferenceBucket ==
  pc = "labelled" =>
    /\ bk_pair.raised = "none"
    /\ LET r == bk_pair.value
           m == r.out_matches[1]
           own(oi) == Label_calc_bucket(bucketer, bk_out_labels[oi])
           of_ref(ri) == Label_calc_bucket(bucketer, bk_ref_labels[ri])
           tallied(oi) == IF m[oi] >= 0 THEN of_ref(m[oi]) ELSE own(oi)
       IN \A b \in 0..Len(bucketer.label_set) :
            /\ r.my_out_totals[1][b] = Cardinality({oi \in DOMAIN m : tallied(oi) = b})
            /\ r.my_out_matches[1][b] =
                 Cardinality({oi \in DOMAIN m : m[oi] >= 0 /\ of_ref(m[oi]) = b})
            /\ r.my_ref_total[b] = Cardinality({ri \in DOMAIN bk_ref[1] : of_ref(ri) = b})

\* the matched output edges tallied so far, over all buckets
MatchedEdges == SumSeq([b \in 1..num_buckets(bucketer) |-> sm_matches[b - 1][1]])

\* the reference tokens taken from the running multiset so far
TakenTokens ==
  SumOver(DOMAIN sm_ref_cnt, [w \in DOMAIN sm_ref_cnt |-> Counter(al_ref, w) - sm_ref_cnt[w]])

\* one round of the loop over out_align on the pair it has reached
OutEdgeAsClaimed ==
  LET edge == al_aligns[2][sm_k + 1]
      word == al_outs[1][edge[2] + 1]
      bucket == calc_bucket(bucketer, al_src[edge[1] + 1], "None")
      matched == sm_ref_cnt[word] > 0
  IN /\ sm_ref_cnt' = [sm_ref_cnt EXCEPT ![word] = IF matched THEN @ - 1 ELSE @]
     /\ sm_matches' = [sm_matches EXCEPT
                         ![bucket] = <<IF matched THEN @[1] + 1 ELSE @[1], @[2], @[3] + 1>>]

\* one round of the loop over ref_align on the pair it has reached
RefEdgeAsClaimed ==
  LET edge == al_aligns[1][sm_k - Len(al_aligns[2]) + 1]
      bucket == calc_bucket(bucketer, al_src[edge[1] + 1], "None")
  IN /\ sm_ref_cnt' = sm_ref_cnt
     /\ sm_matches' = [sm_matches EXCEPT ![bucket] = <<@[1], @[2] + 1, @[3]>>]

\* C23: within one sentence of calc_source_bucketed_matches the reference-token
\* multiset is only ever decremented; an output edge is matched iff the count
\* of its output token is positive at that moment, and the count then drops
\* by one, so no more edges of a token are matched than the reference sentence
\* holds of it; every reference edge adds exactly one to ref_total of the
\* bucket of its source token.
C23_MultisetOnlyDecremented ==
  /\ [](pc \in {"srcloop", "loop_raised"} =>
          /\ \A w \in DOMAIN sm_ref_cnt : 0 <= sm_ref_cnt[w] /\ sm_ref_cnt[w] <= Counter(al_ref, w)
          /\ MatchedEdges = TakenTokens)
  /\ [][sm_k' = sm_k + 1 =>
          /\ \A w \in DOMAIN sm_ref_cnt : sm_ref_cnt'[w] <= sm_ref_cnt[w]
          /\ IF sm_k < Len(al_aligns[2]) THEN OutEdgeAsClaimed ELSE RefEdgeAsClaimed]_vars

\* both loops done: an output edge was matched, another found its token used
\* up, and a reference edge was tallied
C23_Witness ==
  /\ pc = "srcloop"
  /\ sm_k = Len(al_aligns[2]) + Len(al_aligns[1])
  /\ Len(al_aligns[2]) = 2 /\ Len(al_aligns[1]) >= 1
  /\ MatchedEdges = 1
  /\ al_outs[1][al_aligns[2][1][2] + 1] = al_outs[1][al_aligns[2][2][2] + 1]

StrictlyIncreasing(c) == \A i, j \in DOMAIN c : i < j => c[i] < c[j]

\* C24: with strictly increasing cutoffs c[0..m-1], cutoff_into_bucket(v) is
\* the number of cutoffs <= v: the smallest i with v < c[i], and m when
\* v >= c[m-1]; it lies in [0, m], is an index into the m + 1 bucket labels,
\* and is non-decreasing in v.  FreqWordBucketer.calc_bucket is it, on the
\* frequency of the word.
C24_CutoffCountsCutoffsBelow ==
  LET c == bucketer.bucket_cutoffs
      m == Len(c)
  IN (pc = "bucketed" /\ StrictlyIncreasing(c)) =>
       /\ co_bucket = Cardinality({i \in DOMAIN c : c[i] <= co_value})
       /\ co_bucket = m <=> co_value >= c[m]
       /\ co_bucket < m => /\ co_value < c[co_bucket + 1]
                           /\ \A i \in 1..co_bucket : ~(co_value < c[i])
       /\ co_bucket \in 0..m
       /\ co_bucket \in Buckets(bucketer)
       /\ \A v \in CutoffValues :
            v <= co_value => cutoff_into_bucket(c, v) <= co_bucket
       /\ calc_bucket(bucketer, 1, "None") = co_bucket

\* a value that equals the second of three increasing cutoffs
C24_Witness ==
  /\ pc = "bucketed"
  /\ StrictlyIncreasing(bucketer.bucket_cutoffs)
  /\ Len(bucketer.bucket_cutoffs) = 3
  /\ co_value = bucketer.bucket_cutoffs[2]
  /\ co_bucket = 2

\* the entries of the output tokens 1..n, one after the other
RECURSIVE EntriesUpTo(_, _)
EntriesUpTo(per, n) == IF n = 0 THEN <<>> ELSE EntriesUpTo(per, n - 1) \o per[n]

\* C25: ngram_context_align(ref, out) returns, in output order, at most one
\* reference position per output token, none for a token that does not occur
\* in the reference, and every position p returned for out[i] satisfies
\* 0 <= p < len(ref) and ref[p] == out[i].
C25_AlignmentPointsAtEqualTokens ==
  pc = "context_aligned" =>
    /\ op_result.raised = "none"
    /\ Len(op_result.value) <= Len(op_out)
    /\ \E per \in [DOMAIN op_out -> {<<>>} \cup {<<p>> : p \in 0..(Len(op_ref) - 1)}] :
         /\ op_result.value = EntriesUpTo(per, Len(op_out))
         /\ \A i \in DOMAIN op_out :
              /\ op_out[i] \notin Range(op_ref) => per[i] = <<>>
              /\ per[i] # <<>> => op_ref[per[i][1] + 1] = op_out[i]

\* the caches of a call that got past the length check are those cache_stats
\* built from the reference and each system, and only the first step of the
\* call assigns them
CachesBuiltOnce ==
  /\ [](pc \in {"rounds", "done"} =>
          /\ cache_stats1 = cache_stats(scorer, gold, sys1)
          /\ cache_stats2 = cache_stats(scorer, gold, sys2))
  /\ [][pc # "boot" => UNCHANGED <<cache_stats1, cache_stats2>>]_vars

\* what a round leaves alone: everything but the id ordering (and the sample
\* cut from it), the win tallies and the two score lists
RoundFrame ==
  UNCHANGED <<scorer, gold, sys1, sys2, num_samples, sample_ratio, cache_stats1, cache_stats2,
              ret, replayVars, bucketVars, salVars, lateVars>>

\* the scores a round appends, given how it scores ids on a cache
RoundScores(score(_, _, _)) ==
  /\ sys1_scores' = Append(sys1_scores, score(reduced_ids', cache_stats1, sys1))
  /\ sys2_scores' = Append(sys2_scores, score(reduced_ids', cache_stats2, sys2))

ThroughCache(sample, cache, out) == score_cached_corpus(scorer, sample, cache)

ThroughCacheOrCorpus(sample, cache, out) ==
  IF Len(cache_stats1) # 0 /\ Len(cache_stats2) # 0
  THEN score_cached_corpus(scorer, sample, cache)
  ELSE score_corpus(scorer, Select(gold, sample), Select(out, sample))

\* C26 as stated: cache_stats is invoked once per system before the first
\* round, every round scores both systems on the same sample of ids through
\* score_cached_corpus, and a round changes only the id ordering, the win
\* tallies and the score lists.
C26_RoundsScoreThroughCache ==
  /\ CachesBuiltOnce
  /\ [][IsRound => RoundFrame /\ RoundScores(ThroughCache)]_vars

\* C26 (amended): cache_stats is invoked once per system before the first
\* round; every round scores both systems on the same sample of ids, through
\* score_cached_corpus when both caches are non-empty and through score_corpus
\* on the selected sentences otherwise; a round changes only the id ordering,
\* the win tallies and the score lists.
C26_RoundsScoreSameSample ==
  /\ CachesBuiltOnce
  /\ [][IsRound => RoundFrame /\ RoundScores(ThroughCacheOrCorpus)]_vars

C26_Witness ==
  /\ pc = "rounds"
  /\ Len(sys1_scores) >= 2
  /\ Len(reduced_ids) >= 1
  /\ cache_stats1 # cache_stats2
  /\ sys1_scores[Len(sys1_scores)] # sys2_scores[Len(sys2_scores)]

\* C30: extract_salient_features is read-only on its inputs: after any
\* sequence of calls each count dictionary has the same key set and the same
\* counts as before the calls.
C30_SalienceReadOnly ==
  [][/\ DOMAIN matches_left' = DOMAIN matches_left
     /\ DOMAIN matches_right' = DOMAIN matches_right
     /\ matches_left' = matches_left
     /\ matches_right' = matches_right]_vars

\* the start positions of the n-grams of order n of a sentence, and those of
\* the occurrences of the n-gram g
Windows(sent, n) == 1..(Len(sent) - n + 1)
Occurrences(sent, g) == {p \in Windows(sent, Len(g)) : SubSeq(sent, p, p + Len(g) - 1) = g}

\* sum over the distinct output n-grams of min(count in output, count in reference)
ClippedMatches(ref, out, n) ==
  LET grams == {SubSeq(out, p, p + n - 1) : p \in Windows(out, n)}
  IN SumOver(grams, [g \in grams |-> Min(Cardinality(Occurrences(out, g)),
                                         Cardinality(Occurrences(ref, g)))])

\* the pairs BleuScorer.cache_stats holds for the sentence pair, once cached
BleuCached == pc = "cached_sentence" /\ op_scorer = "bleu"
CachedPrec == op_result.value[1].prec

\* C29 as stated: for every order n the cached numerator is the clipped match
\* count and the cached denominator is the number of n-grams of order n in the
\* output (0 when the output has fewer than n tokens), so 0 <= num <= denom.
C29_DenominatorIsNgramCount ==
  BleuCached =>
    /\ op_result.raised = "none"
    /\ \A n \in 1..NumWeights :
         /\ CachedPrec[n][1] = ClippedMatches(op_ref, op_out, n)
         /\ CachedPrec[n][2] = Cardinality(Windows(op_out, n))
         /\ 0 <= CachedPrec[n][1] /\ CachedPrec[n][1] <= CachedPrec[n][2]

\* C29 (amended): for every order n the cached numerator is the clipped match
\* count and the cached denominator is max(1, number of n-grams of order n in
\* the output), 1 when the output has fewer than n tokens, so
\* 0 <= num <= denom.
C29_DenominatorIsClampedNgramCount ==
  BleuCached =>
    /\ op_result.raised = "none"
    /\ \A n \in 1..NumWeights :
         /\ CachedPrec[n][1] = ClippedMatches(op_ref, op_out, n)
         /\ CachedPrec[n][2] = Max(1, Cardinality(Windows(op_out, n)))
         /\ 0 <= CachedPrec[n][1] /\ CachedPrec[n][1] <= CachedPrec[n][2]

\* an output that repeats a word the reference has once, and is shorter than
\* the highest order
C29_Witness ==
  /\ BleuCached
  /\ op_ref = <<1, 2>> /\ op_out = <<1, 2, 1>>
  /\ CachedPrec[1] = <<2, 3>>
  /\ CachedPrec[2] = <<1, 2>>
  /\ CachedPrec[NumWeights][1] = 0

\* a tuple (matched, ref_total, out_total, ...) whose match count is within
\* both totals
WithinTotals(t) == t[1] <= t[2] /\ t[1] <= t[3]

\* the buckets of calc_statistics, in target-side and in source-side mode
StatisticsWithinTotals ==
  pc \in {"stats", "split", "details"} =>
    \A oi \in DOMAIN bk_stats.statistics : \A b \in DOMAIN bk_stats.statistics[oi] :
      WithinTotals(bk_stats.statistics[oi][b])

\* the buckets of calc_source_bucketed_matches: one tuple per bucket, no
\* ZeroDivisionError
SourceMatchesWithinTotals ==
  pc = "srcm" =>
    /\ ~bk_srcm.raised
    /\ Len(bk_srcm.yielded) = num_buckets(bucketer)
    /\ \A k \in DOMAIN bk_srcm.yielded : WithinTotals(bk_srcm.yielded[k])

\* C27: for every bucket produced by any matcher (calc_statistics in either
\* mode, calc_source_bucketed_matches with in-range alignments) matched <=
\* ref_total and matched <= out_total, and computing recall and precision
\* never divides by zero.
C27_MatchedWithinBothTotals == StatisticsWithinTotals /\ SourceMatchesWithinTotals

\* the number of n-gram occurrences of the orders lo..hi in a corpus
NgramOccurrences(corpus, lo, hi) ==
  SumSeq([s \in DOMAIN corpus |->
            SumSeq([k \in 1..Max(0, hi - lo + 1) |-> Max(0, Len(corpus[s]) - (lo + k - 1) + 1)])])

\* sum(d.values()) of a count dictionary
DictSum(d) == SumOver(DOMAIN d, d)

====
